---------------------------- MODULE Spec2Model ----------------------------
(***************************************************************************)
(* A model of the vibeclean analysis engine: the dead-code reference       *)
(* graph, the await/catch walk, the naming classifier, the score           *)
(* aggregation of runAudit and the baseline comparator.                    *)
(*                                                                         *)
(* Conventions.                                                            *)
(*  - A path is a sequence of segments ("src/utils/helper.js" is           *)
(*    <<"src", "utils", "helper.js">>); a specifier is a sequence of       *)
(*    segments too ("./utils/helper" is <<".", "utils", "helper">>).       *)
(*    JavaScript's null path is the empty sequence, which is the           *)
(*    relativePath of no file.                                             *)
(*  - A file's text is represented by the statements the extraction        *)
(*    regexes of the analyzers recognise in it (import statements with     *)
(*    their form, export statements with their form), so the extraction    *)
(*    functions are modelled by what they keep of each statement.          *)
(*  - Ratios are exact rationals num/den; Math.round is floor(x + 1/2).    *)
(***************************************************************************)
EXTENDS Integers, Sequences, FiniteSets, TLC

VARIABLES
    files,      \* deadcode: the scanned file list handed to analyzeDeadCode
    dead,       \* deadcode: the last result of analyzeDeadCode (NoResult before)
    before,     \* deadcode: the result that preceded the last removal of a file
    removed,    \* deadcode: relativePaths removed from the file list so far
    deadPc,     \* deadcode: "scanned" | "analyzed"
    ehFiles,    \* errorhandling: the contents analyzeErrorHandling loops over
    ehStats,    \* errorhandling: countAwaitStats of each file analyzed so far
    ehTotals,   \* errorhandling: the accumulators totalAwait and unhandledAwait
    ehPc,       \* errorhandling: "loop" | "done"
    nmFiles,    \* naming: the file list handed to analyzeNaming
    naming,     \* naming: the last result of analyzeNaming (NoResult before)
    nmPc,       \* naming: "scanned" | "analyzed"
    project,    \* audit: the scanned tree
    config,     \* audit: the merged configuration
    baselineFile,    \* audit: the baseline file of the tree
    categoryResults, \* audit: the categories the analyzers returned
    report,     \* audit: the report of runAudit
    frameworks, \* audit: the category of analyzeFrameworks (NoResult before)
    auPc,       \* audit: "scan" | "analyze" | "report" | "baseline" | "gates" | "returned" | "exited"
    exitCode,   \* audit: process.exitCode of the CLI (0 until set)
    blBaseReport,    \* baseline: the report the snapshot is written from
    blReport,   \* baseline: the current report
    blSnapshot, \* baseline: the snapshot on disk (NoResult before)
    blComparison,    \* baseline: the result of compareAgainstBaseline (NoResult before)
    blPc,       \* baseline: "write" | "compare" | "compared"
    psContent, \* parse: the text handed to parseAstWithMeta
    psResult, \* parse: the result of parseAstWithMeta (NoResult before)
    psPc, \* parse: "read" | "parsed"
    fileConfig, \* config: the object read from .vibecleanrc
    overrides, \* config: the options given to runAudit
    loadedConfig, \* config: the result of loadConfig
    mergedConfig, \* config: the result of mergeConfig
    cfPc, \* config: "load" | "merge" | "merged"
    plScanned, \* the file list as the scan returned it
    plFiles, \* scanResult.files, handed to every analyzer
    plRules, \* the analyzers config.rules leaves enabled
    plCategoryResults, \* categoryResults of runAudit, in the order of the runs
    wtPc, \* watch: "off" | "start" | "initialRun" | "fingerprint" | "polling" | "exited"
    running, \* watch: a cycle is in progress
    queued, \* watch: runCycle was called during a cycle
    activeCycles, \* watch: the cycles between their start and their finally block
    debounceTimer, \* watch: the debounce timer is pending
    requeueTimers, \* watch: the pending 250 ms timers of queued re-runs
    treeFingerprint, \* watch: what watchFingerprint would return for the tree now
    previousFingerprint, \* watch: the fingerprint of the last comparison
    polls, \* watch: the fingerprints of the polls in flight
    pendingChange, \* watch: a change was detected and no cycle has started since
    watchExitCode \* watch: process.exitCode

deadVars == <<files, dead, before, removed, deadPc>>

ehVars == <<ehFiles, ehStats, ehTotals, ehPc>>

nmVars == <<nmFiles, naming, nmPc>>

auVars == <<project, config, baselineFile, categoryResults, report, frameworks, auPc,
           exitCode>>

blVars == <<blBaseReport, blReport, blSnapshot, blComparison, blPc>>

psVars == <<psContent, psResult, psPc>>

cfVars == <<fileConfig, overrides, loadedConfig, mergedConfig, cfPc>>

plVars == <<plScanned, plFiles, plRules, plCategoryResults>>

wtVars == <<wtPc, running, queued, activeCycles, debounceTimer, requeueTimers, treeFingerprint, previousFingerprint, polls, pendingChange, watchExitCode>>

vars == <<files, dead, before, removed, deadPc, ehFiles, ehStats, ehTotals, ehPc,
          nmFiles, naming, nmPc,
          project, config, baselineFile, categoryResults, report, frameworks, auPc,
          exitCode,
          blBaseReport, blReport, blSnapshot, blComparison, blPc,
          psContent, psResult, psPc,
          fileConfig, overrides, loadedConfig, mergedConfig, cfPc,
          plScanned, plFiles, plRules, plCategoryResults,
          wtPc, running, queued, activeCycles, debounceTimer, requeueTimers, treeFingerprint, previousFingerprint, polls, pendingChange, watchExitCode>>

(***************************************************************************)
(* Bounds of the model.                                                    *)
(***************************************************************************)
MaxFiles == 3
MaxTryDepth == 2
MaxAwaitFiles == 2
MaxAwaitWords == 2
MaxNamingFiles == 3
MaxAuditFiles == 4
MaxBaselineIssues == 1
MaxStatements == 3
MaxFileIdentifiers == 10

NoResult == [none |-> TRUE]

Min(a, b) == IF a < b THEN a ELSE b
Max(a, b) == IF a > b THEN a ELSE b

RECURSIVE SeqToSet(_)
SeqToSet(s) == IF s = <<>> THEN {} ELSE {Head(s)} \cup SeqToSet(Tail(s))

\* [...set] of a Set filled from a sequence: first occurrences, in order.
RECURSIVE Dedupe(_, _)
Dedupe(s, seen) ==
    IF s = <<>> THEN <<>>
    ELSE IF Head(s) \in seen THEN Dedupe(Tail(s), seen)
    ELSE <<Head(s)>> \o Dedupe(Tail(s), seen \cup {Head(s)})

(***************************************************************************)
(* utils.js: scoring helpers.                                              *)
(***************************************************************************)
\* Math.round(Math.min(1, Math.max(0, ratio)) * weight) for ratio = num/den, den > 0.
scoreFromRatio(num, den, weight) ==
    IF num <= 0 THEN 0
    ELSE IF num >= den THEN weight
    ELSE (2 * weight * num + den) \div (2 * den)

\* Mutant: the thresholds are exclusive.
severityFromScoreExclusive(score) ==
    IF score > 7 THEN "high"
    ELSE IF score > 4 THEN "medium"
    ELSE "low"

severityFromScore(score) ==
    IF score >= 7 THEN "high"
    ELSE IF score >= 4 THEN "medium"
    ELSE "low"

(***************************************************************************)
(* deadcode.js: path resolution.                                           *)
(***************************************************************************)
EXTENSIONS == <<".js", ".jsx", ".ts", ".tsx", ".mjs", ".cjs", ".vue", ".svelte">>

NullPath == <<>>

\* path.dirname of a root-relative, normalized file path ("." is <<>>).
pathDirname(p) == SubSeq(p, 1, Len(p) - 1)

\* path.normalize over the segments: "." dropped, ".." pops a directory
\* (and is kept when nothing is left to pop).
RECURSIVE normalizeSegments(_, _)
normalizeSegments(stack, segs) ==
    IF segs = <<>> THEN stack
    ELSE LET s == Head(segs)
             next == IF s = "." THEN stack
                     ELSE IF s = ".."
                          THEN IF stack # <<>> /\ stack[Len(stack)] # ".."
                               THEN SubSeq(stack, 1, Len(stack) - 1)
                               ELSE Append(stack, "..")
                          ELSE Append(stack, s)
         IN  normalizeSegments(next, Tail(segs))

pathJoin(a, b) == normalizeSegments(<<>>, a \o b)

\* `${direct}${ext}`: the extension is appended to the text of the path.
appendExt(p, ext) ==
    IF p = <<>> THEN <<"." \o ext>>
    ELSE [p EXCEPT ![Len(p)] = @ \o ext]

RECURSIVE firstWithExt(_, _, _)
firstWithExt(direct, existingFiles, i) ==
    IF i > Len(EXTENSIONS) THEN NullPath
    ELSE IF appendExt(direct, EXTENSIONS[i]) \in existingFiles
         THEN appendExt(direct, EXTENSIONS[i])
         ELSE firstWithExt(direct, existingFiles, i + 1)

RECURSIVE firstIndexWithExt(_, _, _)
firstIndexWithExt(direct, existingFiles, i) ==
    IF i > Len(EXTENSIONS) THEN NullPath
    ELSE IF pathJoin(direct, <<"index" \o EXTENSIONS[i]>>) \in existingFiles
         THEN pathJoin(direct, <<"index" \o EXTENSIONS[i]>>)
         ELSE firstIndexWithExt(direct, existingFiles, i + 1)

\* Mutant: a specifier that matches nothing resolves to the joined path
\* itself instead of null.
resolveRelativeImportOrDirect(fromFile, specifier, existingFiles) ==
    LET direct == pathJoin(pathDirname(fromFile), specifier)
    IN  IF direct \in existingFiles THEN direct
        ELSE IF firstWithExt(direct, existingFiles, 1) # NullPath
             THEN firstWithExt(direct, existingFiles, 1)
             ELSE IF firstIndexWithExt(direct, existingFiles, 1) # NullPath
                  THEN firstIndexWithExt(direct, existingFiles, 1)
                  ELSE direct

\* Mutant: the index files of the directory are tried before the extensions.
resolveRelativeImportIndexFirst(fromFile, specifier, existingFiles) ==
    LET baseDir == pathDirname(fromFile)
        direct == pathJoin(baseDir, specifier)
    IN  IF direct \in existingFiles THEN direct
        ELSE IF firstIndexWithExt(direct, existingFiles, 1) # NullPath
             THEN firstIndexWithExt(direct, existingFiles, 1)
             ELSE firstWithExt(direct, existingFiles, 1)

resolveRelativeImport(fromFile, specifier, existingFiles) ==
    LET baseDir == pathDirname(fromFile)
        direct == pathJoin(baseDir, specifier)
    IN  IF direct \in existingFiles THEN direct
        ELSE IF firstWithExt(direct, existingFiles, 1) # NullPath
             THEN firstWithExt(direct, existingFiles, 1)
             ELSE firstIndexWithExt(direct, existingFiles, 1)

\* item.startsWith(".")
isRelativeSpecifier(specifier) ==
    specifier # <<>> /\ specifier[1] \in {".", ".."}

(***************************************************************************)
(* deadcode.js: what the extraction regexes keep of a file's text.         *)
(*                                                                         *)
(* An import statement is [form, specifier, names], names a sequence of    *)
(* [imported, local] pairs, with form one of                               *)
(*   "default"            import X from 's'                                *)
(*   "defaultNamed"       import X, { a, b as c } from 's'                 *)
(*   "named"              import { a, b as c } from 's'                    *)
(*   "namespace"          import * as X from 's'                           *)
(*   "sideEffect"         import 's'                                       *)
(*   "requireConst"       const x = require('s')                           *)
(*   "requireDestructure" const { a, b: c } = require('s')                 *)
(*   "requireBare"        require('s')                                     *)
(* An export statement is [kind, name, parts], with kind one of            *)
(*   "decl"     export const|let|var|function|class <name>                 *)
(*   "list"     export { a, b as c }   (parts: [local, exported] pairs)    *)
(*   "default"  export default ...                                         *)
(***************************************************************************)
FromForms == {"default", "defaultNamed", "named", "namespace"}
RequireForms == {"requireConst", "requireDestructure", "requireBare"}

RECURSIVE specifiersOfForms(_, _)
specifiersOfForms(imports, forms) ==
    IF imports = <<>> THEN <<>>
    ELSE (IF Head(imports).form \in forms THEN <<Head(imports).specifier>> ELSE <<>>)
         \o specifiersOfForms(Tail(imports), forms)

RECURSIVE keepRelative(_)
keepRelative(specifiers) ==
    IF specifiers = <<>> THEN <<>>
    ELSE (IF isRelativeSpecifier(Head(specifiers)) THEN <<Head(specifiers)>> ELSE <<>>)
         \o keepRelative(Tail(specifiers))

extractRelativeImports(content) ==
    keepRelative(specifiersOfForms(content.imports, FromForms)
                 \o specifiersOfForms(content.imports, {"sideEffect"})
                 \o specifiersOfForms(content.imports, RequireForms))

\* item.trim().split(/\s+as\s+/)[0] and item.trim().split(/\s*:\s*/)[0]: the
\* name on the left of the alias, which is the name the target exports.
RECURSIVE importedNames(_)
importedNames(names) ==
    IF names = <<>> THEN <<>>
    ELSE <<Head(names).imported>> \o importedNames(Tail(names))

importInfoOf(imp) ==
    [specifier |-> imp.specifier,
     names |-> IF imp.form \in {"defaultNamed", "named", "requireDestructure"}
               THEN importedNames(imp.names) ELSE <<>>,
     defaultImport |-> imp.form \in {"default", "defaultNamed", "requireConst"},
     namespaceImport |-> imp.form = "namespace"]

RECURSIVE importInfosOfForms(_, _)
importInfosOfForms(imports, forms) ==
    IF imports = <<>> THEN <<>>
    ELSE (IF Head(imports).form \in forms THEN <<importInfoOf(Head(imports))>> ELSE <<>>)
         \o importInfosOfForms(Tail(imports), forms)

extractImportUsage(content) ==
    importInfosOfForms(content.imports, {"default", "defaultNamed"})
    \o importInfosOfForms(content.imports, {"named"})
    \o importInfosOfForms(content.imports, {"namespace"})
    \o importInfosOfForms(content.imports, {"requireConst"})
    \o importInfosOfForms(content.imports, {"requireDestructure"})

RECURSIVE declNames(_)
declNames(exports) ==
    IF exports = <<>> THEN <<>>
    ELSE (IF Head(exports).kind = "decl" THEN <<Head(exports).name>> ELSE <<>>)
         \o declNames(Tail(exports))

\* One part of export { ... }: an alias to default adds no name; any other
\* part adds names.add(localName).
exportedPartName(part) == part.local

RECURSIVE partNames(_)
partNames(parts) ==
    IF parts = <<>> THEN <<>>
    ELSE (IF Head(parts).exported = "default" THEN <<>>
          ELSE <<exportedPartName(Head(parts))>>)
         \o partNames(Tail(parts))

RECURSIVE listNames(_)
listNames(exports) ==
    IF exports = <<>> THEN <<>>
    ELSE (IF Head(exports).kind = "list" THEN partNames(Head(exports).parts) ELSE <<>>)
         \o listNames(Tail(exports))

hasDefaultExport(exports) ==
    \E i \in 1..Len(exports) :
        \/ exports[i].kind = "default"
        \/ /\ exports[i].kind = "list"
           /\ \E j \in 1..Len(exports[i].parts) : exports[i].parts[j].exported = "default"

extractExports(content) ==
    [named |-> Dedupe(declNames(content.exports) \o listNames(content.exports), {}),
     hasDefault |-> hasDefaultExport(content.exports)]

EntryBaseNames == {"index", "main", "app"}
EntryExtensions == {".js", ".jsx", ".ts", ".tsx", ".mjs", ".cjs"}
EntryDirectories == {"pages", "routes"}

isEntrypoint(relativePath) ==
    \/ /\ relativePath # <<>>
       /\ relativePath[Len(relativePath)]
             \in {b \o e : b \in EntryBaseNames, e \in EntryExtensions}
    \/ \E i \in 1..(Len(relativePath) - 1) : relativePath[i] \in EntryDirectories

\* file.relativePath.startsWith("src/")
inSrc(relativePath) == Len(relativePath) >= 2 /\ relativePath[1] = "src"

\* Lines that are not blank, comment-only or brace-only; and whether every
\* non-blank line is a bare re-export. Both are read off the content record.
codeLineCount(content) == content.codeLines

isReexportOnly(content) == content.reexportOnly

StubLineThreshold == 5
OrphanHighThreshold == 5

(***************************************************************************)
(* deadcode.js: analyzeDeadCode.                                           *)
(***************************************************************************)
RECURSIVE relativePathsOf(_)
relativePathsOf(fs) ==
    IF fs = <<>> THEN <<>> ELSE <<Head(fs).relativePath>> \o relativePathsOf(Tail(fs))

\* for (const specifier of imports) { ... incomingRefs.get(resolved).add(file) }
RECURSIVE addIncomingRefs(_, _, _, _)
RECURSIVE addIncomingRefsBreakOnMiss(_, _, _, _)
\* Mutant: the loop stops at the first specifier that resolves to nothing
\* (break for continue).
addIncomingRefsBreakOnMiss(incomingRefs, fromFile, specifiers, existingFiles) ==
    IF specifiers = <<>> THEN incomingRefs
    ELSE LET resolved == resolveRelativeImport(fromFile, Head(specifiers), existingFiles)
         IN  IF resolved = NullPath \/ resolved \notin DOMAIN incomingRefs
             THEN incomingRefs
             ELSE addIncomingRefsBreakOnMiss(
                      [incomingRefs EXCEPT ![resolved] = @ \cup {fromFile}],
                      fromFile, Tail(specifiers), existingFiles)

addIncomingRefs(incomingRefs, fromFile, specifiers, existingFiles) ==
    IF specifiers = <<>> THEN incomingRefs
    ELSE LET resolved == resolveRelativeImport(fromFile, Head(specifiers), existingFiles)
             next == IF resolved = NullPath \/ resolved \notin DOMAIN incomingRefs
                     THEN incomingRefs
                     ELSE [incomingRefs EXCEPT ![resolved] = @ \cup {fromFile}]
         IN  addIncomingRefs(next, fromFile, Tail(specifiers), existingFiles)

EmptyUsage == [named |-> {}, defaultImport |-> FALSE, namespaceImport |-> FALSE]

foldUsage(usage, importInfo) ==
    [named |-> usage.named \cup SeqToSet(importInfo.names),
     defaultImport |-> usage.defaultImport \/ importInfo.defaultImport,
     namespaceImport |-> usage.namespaceImport \/ importInfo.namespaceImport]

\* for (const importInfo of extractImportUsage(file.content)) { ... }
RECURSIVE addImportUsage(_, _, _, _)
addImportUsage(usageByFile, fromFile, importInfos, existingFiles) ==
    IF importInfos = <<>> THEN usageByFile
    ELSE LET info == Head(importInfos)
             resolved == IF isRelativeSpecifier(info.specifier)
                         THEN resolveRelativeImport(fromFile, info.specifier, existingFiles)
                         ELSE NullPath
             usage == IF resolved \in DOMAIN usageByFile
                       THEN usageByFile[resolved] ELSE EmptyUsage
             next == IF resolved = NullPath THEN usageByFile
                     ELSE [q \in (DOMAIN usageByFile) \cup {resolved} |->
                              IF q = resolved THEN foldUsage(usage, info)
                              ELSE usageByFile[q]]
         IN  addImportUsage(next, fromFile, Tail(importInfos), existingFiles)

\* Mutant: an import resolves only against the files the loop has reached.
RECURSIVE buildGraphSeenSoFar(_, _, _)
buildGraphSeenSoFar(fs, existingFiles, acc) ==
    IF fs = <<>> THEN acc
    ELSE LET file == Head(fs)
             seen == (DOMAIN acc.exportsByFile) \cup {file.relativePath}
             next ==
               [incomingRefs |->
                    addIncomingRefs(acc.incomingRefs, file.relativePath,
                                    extractRelativeImports(file.content), seen),
                exportsByFile |->
                    [q \in seen |->
                        IF q = file.relativePath THEN extractExports(file.content)
                        ELSE acc.exportsByFile[q]],
                importUsageByFile |->
                    addImportUsage(acc.importUsageByFile, file.relativePath,
                                   extractImportUsage(file.content), seen)]
         IN  buildGraphSeenSoFar(Tail(fs), existingFiles, next)

\* The second loop of analyzeDeadCode, one file per step, in list order.
RECURSIVE buildGraph(_, _, _)
buildGraph(fs, existingFiles, acc) ==
    IF fs = <<>> THEN acc
    ELSE LET file == Head(fs)
             next ==
               [incomingRefs |->
                    addIncomingRefs(acc.incomingRefs, file.relativePath,
                                    extractRelativeImports(file.content), existingFiles),
                exportsByFile |->
                    [q \in (DOMAIN acc.exportsByFile) \cup {file.relativePath} |->
                        IF q = file.relativePath THEN extractExports(file.content)
                        ELSE acc.exportsByFile[q]],
                importUsageByFile |->
                    addImportUsage(acc.importUsageByFile, file.relativePath,
                                   extractImportUsage(file.content), existingFiles)]
         IN  buildGraph(Tail(fs), existingFiles, next)

\* Mutant: only the files directly in src/ count as under the source tree.
isOrphanDirectChild(relativePath, incomingRefs) ==
    /\ pathDirname(relativePath) = <<"src">>
    /\ relativePath \in DOMAIN incomingRefs
    /\ incomingRefs[relativePath] = {}
    /\ ~isEntrypoint(relativePath)

isOrphan(relativePath, incomingRefs) ==
    /\ inSrc(relativePath)
    /\ relativePath \in DOMAIN incomingRefs
    /\ incomingRefs[relativePath] = {}
    /\ ~isEntrypoint(relativePath)

RECURSIVE orphanFilesOf(_, _)
orphanFilesOf(paths, incomingRefs) ==
    IF paths = <<>> THEN <<>>
    ELSE (IF isOrphan(Head(paths), incomingRefs) THEN <<Head(paths)>> ELSE <<>>)
         \o orphanFilesOf(Tail(paths), incomingRefs)

usedOf(filePath, usageByFile) ==
    IF filePath \in DOMAIN usageByFile THEN usageByFile[filePath] ELSE EmptyUsage

isUnusedNamed(filePath, exportName, used) ==
    /\ exportName \notin used.named
    /\ ~used.namespaceImport
    /\ ~isEntrypoint(filePath)

isUnusedDefault(filePath, exportInfo, used) ==
    /\ exportInfo.hasDefault
    /\ ~used.defaultImport
    /\ ~used.namespaceImport
    /\ ~isEntrypoint(filePath)

RECURSIVE unusedNamedOf(_, _, _)
unusedNamedOf(filePath, names, used) ==
    IF names = <<>> THEN <<>>
    ELSE (IF isUnusedNamed(filePath, Head(names), used)
          THEN <<[file |-> filePath, name |-> Head(names)]>> ELSE <<>>)
         \o unusedNamedOf(filePath, Tail(names), used)

\* for (const [filePath, exportInfo] of exportsByFile.entries()) { ... }
RECURSIVE unusedExportsOf(_, _, _)
unusedExportsOf(paths, exportsByFile, usageByFile) ==
    IF paths = <<>> THEN <<>>
    ELSE LET filePath == Head(paths)
             exportInfo == exportsByFile[filePath]
             used == usedOf(filePath, usageByFile)
         IN  (IF exportInfo.named = <<>> /\ ~exportInfo.hasDefault THEN <<>>
              ELSE unusedNamedOf(filePath, exportInfo.named, used)
                   \o (IF isUnusedDefault(filePath, exportInfo, used)
                       THEN <<[file |-> filePath, name |-> "default"]>> ELSE <<>>))
             \o unusedExportsOf(Tail(paths), exportsByFile, usageByFile)

isStub(content) == codeLineCount(content) < StubLineThreshold \/ isReexportOnly(content)

RECURSIVE stubFilesOf(_)
stubFilesOf(fs) ==
    IF fs = <<>> THEN <<>>
    ELSE (IF isStub(Head(fs).content)
          THEN <<[file |-> Head(fs).relativePath, lines |-> codeLineCount(Head(fs).content)]>>
          ELSE <<>>)
         \o stubFilesOf(Tail(fs))

deadCodeFindings(orphanCount, unusedExportCount, stubCount) ==
    (IF orphanCount > 0
     THEN <<[severity |-> IF orphanCount > OrphanHighThreshold THEN "high" ELSE "medium",
             about |-> "orphan"]>> ELSE <<>>)
    \o (IF unusedExportCount > 0
        THEN <<[severity |-> "medium", about |-> "unusedExport"]>> ELSE <<>>)
    \o (IF stubCount > 0
        THEN <<[severity |-> "low", about |-> "stub"]>> ELSE <<>>)

\* Mutant: the rounded ratio, neither clamped to [0, 1] nor cut at 10.
deadCodeScoreUnclamped(signal, fileCount) ==
    (200 * signal + Max(6 * fileCount, 10)) \div (2 * Max(6 * fileCount, 10))

\* scoreFromRatio(signal / Math.max(files.length * 0.6, 1), 10), in tenths.
deadCodeScore(signal, fileCount) ==
    Min(10, scoreFromRatio(10 * signal, Max(6 * fileCount, 10), 10))

analyzeDeadCode(fs) ==
    LET paths == relativePathsOf(fs)
        existingFiles == SeqToSet(paths)
        graph == buildGraph(fs, existingFiles,
                            [incomingRefs |-> [q \in existingFiles |-> {}],
                             exportsByFile |-> <<>>,
                             importUsageByFile |-> <<>>])
        orphanFiles == orphanFilesOf(paths, graph.incomingRefs)
        unusedExports == unusedExportsOf(Dedupe(paths, {}), graph.exportsByFile,
                                         graph.importUsageByFile)
        stubFiles == stubFilesOf(fs)
        findings == deadCodeFindings(Len(orphanFiles), Len(unusedExports), Len(stubFiles))
        signal == Len(orphanFiles) * 2 + Len(unusedExports) + Len(stubFiles)
        score == deadCodeScore(signal, Len(fs))
    IN  [id |-> "deadcode",
         score |-> score,
         severity |-> severityFromScore(score),
         totalIssues |-> Len(orphanFiles) + Len(unusedExports) + Len(stubFiles),
         findings |-> findings,
         incomingRefs |-> graph.incomingRefs,
         importUsageByFile |-> graph.importUsageByFile,
         exportsByFile |-> graph.exportsByFile,
         orphanFiles |-> orphanFiles,
         unusedExports |-> unusedExports,
         stubFiles |-> stubFiles]

(***************************************************************************)
(* The files the dead-code runs draw from (File Provider records; the      *)
(* extension is the end of relativePath).                                  *)
(***************************************************************************)
Import(form, specifier, names) == [form |-> form, specifier |-> specifier, names |-> names]
Name(imported, local) == [imported |-> imported, local |-> local]
ExportDecl(name) == [kind |-> "decl", name |-> name, parts |-> <<>>]
ExportList(parts) == [kind |-> "list", name |-> "", parts |-> parts]
ExportDefault == [kind |-> "default", name |-> "", parts |-> <<>>]
Part(local, exported) == [local |-> local, exported |-> exported]
SourceFile(relativePath, imports, exports, codeLines, reexportOnly) ==
    [relativePath |-> relativePath,
     content |-> [imports |-> imports, exports |-> exports,
                  codeLines |-> codeLines, reexportOnly |-> reexportOnly]]

DeadCodeFiles ==
    <<
      \* src/utils/helper.js:  export function foo() {...}
      SourceFile(<<"src", "utils", "helper.js">>, <<>>, <<ExportDecl("foo")>>, 8, FALSE),
      \* utils/helper.js (outside src/):  export function foo() {...}
      SourceFile(<<"utils", "helper.js">>, <<>>, <<ExportDecl("foo")>>, 8, FALSE),
      \* src/index.js:  import { foo } from './utils/helper'; import './styles.css';
      \*                import _ from 'lodash'; export const start = ...
      SourceFile(<<"src", "index.js">>,
                 <<Import("named", <<".", "utils", "helper">>, <<Name("foo", "foo")>>),
                   Import("sideEffect", <<".", "styles.css">>, <<>>),
                   Import("default", <<"lodash">>, <<>>)>>,
                 <<ExportDecl("start")>>, 6, FALSE),
      \* src/a.js:  import B, { c } from './b'; import lib from './lib';
      \*            import * as H from '../utils/helper'; export default ...
      SourceFile(<<"src", "a.js">>,
                 <<Import("defaultNamed", <<".", "b">>, <<Name("c", "c")>>),
                   Import("default", <<".", "lib">>, <<>>),
                   Import("namespace", <<"..", "utils", "helper">>, <<>>)>>,
                 <<ExportDefault>>, 10, FALSE),
      \* src/b.ts:  const h = require('./utils/helper'); export { b as c, x as default }
      SourceFile(<<"src", "b.ts">>,
                 <<Import("requireConst", <<".", "utils", "helper">>, <<>>)>>,
                 <<ExportList(<<Part("b", "c"), Part("x", "default")>>)>>, 3, FALSE),
      \* src/lib/index.js:  const { foo: f } = require('../utils/helper.js');
      \*                    export { y }; export const z = ...
      SourceFile(<<"src", "lib", "index.js">>,
                 <<Import("requireDestructure", <<"..", "utils", "helper.js">>,
                          <<Name("foo", "f")>>)>>,
                 <<ExportList(<<Part("y", "y")>>), ExportDecl("z")>>, 2, TRUE),
      \* src/pages/home.js:  import * as A from '../a'; export const page = ...
      SourceFile(<<"src", "pages", "home.js">>,
                 <<Import("namespace", <<"..", "a">>, <<>>)>>,
                 <<ExportDecl("page"), ExportDefault>>, 7, FALSE),
      \* src/c.js:  import { b as bee } from './b'; require('./a.js');
      \*            import cfg from './missing'; export class cee {}
      SourceFile(<<"src", "c.js">>,
                 <<Import("named", <<".", "b">>, <<Name("b", "bee")>>),
                   Import("requireBare", <<".", "a.js">>, <<>>),
                   Import("default", <<".", "missing">>, <<>>)>>,
                 <<ExportDecl("cee")>>, 12, FALSE),
      \* src/b.js (beside src/b.ts):  export const c = ...
      SourceFile(<<"src", "b.js">>, <<>>, <<ExportDecl("c")>>, 4, FALSE),
      \* src/lib.ts (beside src/lib/index.js):  export const z = ...
      SourceFile(<<"src", "lib.ts">>, <<>>, <<ExportDecl("z")>>, 4, FALSE),
      \* src/a.js.ts (beside src/a.js):  export const shadow = ...
      SourceFile(<<"src", "a.js.ts">>, <<>>, <<ExportDecl("shadow")>>, 4, FALSE),
      \* src/main.vue:  export default ...
      SourceFile(<<"src", "main.vue">>, <<>>, <<ExportDefault>>, 9, FALSE)
    >>

\* The file lists a scan can yield: distinct files, in any order.
FileChoices ==
    UNION {{c \in [1..n -> 1..Len(DeadCodeFiles)] : \A i, j \in 1..n : i # j => c[i] # c[j]}
           : n \in 0..MaxFiles}

FileLists == {[i \in 1..Len(c) |-> DeadCodeFiles[c[i]]] : c \in FileChoices}

RemoveAt(s, i) == SubSeq(s, 1, i - 1) \o SubSeq(s, i + 1, Len(s))

(***************************************************************************)
(* The dead-code run: a scan, analyzeDeadCode on its files, and re-runs    *)
(* after a file has been removed from the tree.                            *)
(***************************************************************************)
AnalyzeDeadCode ==
    /\ deadPc = "scanned"
    /\ dead' = analyzeDeadCode(files)
    /\ deadPc' = "analyzed"
    /\ UNCHANGED <<files, before, removed>>
    /\ UNCHANGED <<ehVars, nmVars, auVars, blVars, psVars, cfVars, plVars, wtVars>>

RemoveFileAndRerun ==
    /\ deadPc = "analyzed"
    /\ \E i \in 1..Len(files) :
          /\ files' = RemoveAt(files, i)
          /\ removed' = removed \cup {files[i].relativePath}
    /\ before' = dead
    /\ dead' = analyzeDeadCode(files')
    /\ UNCHANGED deadPc
    /\ UNCHANGED <<ehVars, nmVars, auVars, blVars, psVars, cfVars, plVars, wtVars>>

DeadNext == AnalyzeDeadCode \/ RemoveFileAndRerun

(***************************************************************************)
(* errorhandling.js: the await/catch walk.                                 *)
(*                                                                         *)
(* A syntax-tree node is [type, name, computed, kids]; kids holds the      *)
(* node-valued properties in the order of Object.keys:                     *)
(*   Program, BlockStatement   the statements of body                      *)
(*   ExpressionStatement       <<expression>>                              *)
(*   AwaitExpression           <<argument>>                                *)
(*   CallExpression            <<callee>> \o arguments                     *)
(*   MemberExpression          <<object, property>>                        *)
(*   TryStatement              <<block, handler, finalizer>>               *)
(*   CatchClause               <<param, body>>                             *)
(*   FunctionDeclaration       <<id, body>>                                *)
(* A property that is null is NullNode.                                    *)
(***************************************************************************)
Node(type, name, computed, kids) ==
    [type |-> type, name |-> name, computed |-> computed, kids |-> kids]

NullNode == Node("null", "", FALSE, <<>>)

Id(name) == Node("Identifier", name, FALSE, <<>>)
Literal(name) == Node("Literal", name, FALSE, <<>>)
Member(object, property) == Node("MemberExpression", "", FALSE, <<object, Id(property)>>)
ComputedMember(object, property) ==
    Node("MemberExpression", "", TRUE, <<object, Literal(property)>>)
Call(callee, arguments) == Node("CallExpression", "", FALSE, <<callee>> \o arguments)
Await(argument) == Node("AwaitExpression", "", FALSE, <<argument>>)
ExprStmt(expression) == Node("ExpressionStatement", "", FALSE, <<expression>>)
Block(body) == Node("BlockStatement", "", FALSE, body)
Catch(body) == Node("CatchClause", "", FALSE, <<Id("e"), Block(body)>>)
Try(block, handler, finalizer) ==
    Node("TryStatement", "", FALSE, <<block, handler, finalizer>>)
Func(name, body) == Node("FunctionDeclaration", "", FALSE, <<Id(name), Block(body)>>)
Program(body) == Node("Program", "", FALSE, body)

calleeOf(node) == node.kids[1]
objectOf(node) == node.kids[1]
propertyOf(node) == node.kids[2]
argumentOf(node) == node.kids[1]
blockOf(node) == node.kids[1]
handlerOf(node) == node.kids[2]
finalizerOf(node) == node.kids[3]

RECURSIVE hasCatchChain(_)
hasCatchChain(node) ==
    IF node.type = "null" THEN FALSE
    ELSE IF /\ node.type = "CallExpression"
            /\ calleeOf(node).type = "MemberExpression"
            /\ ~calleeOf(node).computed
            /\ propertyOf(calleeOf(node)).type = "Identifier"
            /\ propertyOf(calleeOf(node)).name = "catch"
         THEN TRUE
    ELSE IF node.type = "CallExpression" /\ calleeOf(node).type = "MemberExpression"
         THEN hasCatchChain(objectOf(calleeOf(node)))
    ELSE FALSE

ZeroCounters == [totalAwait |-> 0, unhandledAwait |-> 0]

addCounters(a, b) ==
    [totalAwait |-> a.totalAwait + b.totalAwait,
     unhandledAwait |-> a.unhandledAwait + b.unhandledAwait]

\* if (node.type === "AwaitExpression") { counters.totalAwait += 1; ... }
awaitCounters(node, inTryBlock) ==
    IF node.type = "AwaitExpression"
    THEN [totalAwait |-> 1,
          unhandledAwait |-> IF ~inTryBlock /\ ~hasCatchChain(argumentOf(node))
                             THEN 1 ELSE 0]
    ELSE ZeroCounters

\* Mutant: the handler and the finalizer inherit the context of the try statement.
handlerContextInherited(inTryBlock) == inTryBlock

\* The context the handler and the finalizer of a try statement are visited with.
handlerContext(inTryBlock) == FALSE

RECURSIVE visit(_, _)
RECURSIVE visitAll(_, _)
visitAll(nodes, inTryBlock) ==
    IF nodes = <<>> THEN ZeroCounters
    ELSE addCounters(IF Head(nodes).type = "null" THEN ZeroCounters
                     ELSE visit(Head(nodes), inTryBlock),
                     visitAll(Tail(nodes), inTryBlock))

visit(node, inTryBlock) ==
    IF node.type = "null" THEN ZeroCounters
    ELSE IF node.type = "TryStatement"
         THEN addCounters(awaitCounters(node, inTryBlock),
              addCounters(visit(blockOf(node), TRUE),
              addCounters(visit(handlerOf(node), handlerContext(inTryBlock)),
                          visit(finalizerOf(node), handlerContext(inTryBlock)))))
    ELSE addCounters(awaitCounters(node, inTryBlock), visitAll(node.kids, inTryBlock))

\* Mutant: without a tree every await word is taken as unhandled.
countAwaitStatsAllUnhandled(fileContent) ==
    IF fileContent.ast = NullNode
    THEN [totalAwait |-> fileContent.awaitWords, unhandledAwait |-> fileContent.awaitWords]
    ELSE visit(fileContent.ast, FALSE)

\* A file's text, for this analyzer: the tree parseAst returns (NullNode when
\* no tier parses it) and the number of matches of /\bawait\b/g.
countAwaitStats(fileContent) ==
    IF fileContent.ast = NullNode
    THEN [totalAwait |-> fileContent.awaitWords, unhandledAwait |-> 0]
    ELSE visit(fileContent.ast, FALSE)

(***************************************************************************)
(* The texts the error-handling runs draw from.                            *)
(***************************************************************************)
AwaitCall == ExprStmt(Await(Call(Id("f"), <<>>)))                  \* await f();
AwaitCatch == ExprStmt(Await(Call(Member(Id("p"), "catch"), <<Id("h")>>)))
                                                                   \* await p.catch(h);
NestedLeaves == {AwaitCall, AwaitCatch}

TopLeaves ==
    NestedLeaves \cup
    { ExprStmt(Call(Id("f"), <<>>)),                                    \* f();
      ExprStmt(Await(Id("p"))),                                         \* await p;
      ExprStmt(Await(Call(Member(Id("p"), "then"), <<Id("g")>>))),      \* await p.then(g);
      ExprStmt(Await(Call(Member(Call(Member(Id("p"), "catch"), <<Id("h")>>), "then"),
                          <<Id("g")>>))),                      \* await p.catch(h).then(g);
      ExprStmt(Await(Call(Member(Call(Member(Id("p"), "then"), <<Id("g")>>), "catch"),
                          <<Id("h")>>))),                      \* await p.then(g).catch(h);
      ExprStmt(Await(Member(Call(Member(Id("p"), "catch"), <<Id("h")>>), "value"))),
                                                               \* await p.catch(h).value;
      ExprStmt(Await(Call(ComputedMember(Id("p"), "catch"), <<Id("h")>>)))
                                                               \* await p["catch"](h);
    }

\* Statements with try statements nested to depth d, an inner try sitting in
\* the block, the handler or the finalizer of the outer one.
RECURSIVE Stmts(_)
Stmts(d) ==
    IF d = 0 THEN NestedLeaves
    ELSE LET inner == Stmts(d - 1)
             pairs == (inner \X NestedLeaves) \cup (NestedLeaves \X inner)
         IN  NestedLeaves
             \cup {Try(Block(<<pr[1]>>), Catch(<<pr[2]>>), NullNode) : pr \in pairs}
             \cup {Try(Block(<<pr[1]>>), NullNode, Block(<<pr[2]>>)) : pr \in pairs}
             \cup {Try(Block(<<b>>), Catch(<<>>), NullNode) : b \in NestedLeaves}
             \cup {Try(Block(<<Func("g", <<b>>)>>), Catch(<<>>), Block(<<b>>)) :
                      b \in NestedLeaves}

AwaitPrograms == {Program(<<st>>) : st \in TopLeaves \cup Stmts(MaxTryDepth)}

Parsed(ast) == [ast |-> ast, awaitWords |-> visit(ast, FALSE).totalAwait]
Unparseable(awaitWords) == [ast |-> NullNode, awaitWords |-> awaitWords]

\* try { try { f(); } catch (e) { await f(); } } catch (e2) { }
NestedHandlerAwait ==
    Program(<<Try(Block(<<Try(Block(<<ExprStmt(Call(Id("f"), <<>>))>>),
                              Catch(<<AwaitCall>>), NullNode)>>),
                  Catch(<<>>), NullNode)>>)

CuratedTexts ==
    { Parsed(Program(<<AwaitCall>>)),
      Parsed(Program(<<AwaitCatch>>)),
      Parsed(Program(<<Try(Block(<<AwaitCall>>), Catch(<<>>), NullNode)>>)),
      Parsed(NestedHandlerAwait) }
    \cup {Unparseable(n) : n \in 0..MaxAwaitWords}

EhFileLists ==
    {<<Parsed(pg)>> : pg \in AwaitPrograms}
    \cup UNION {[1..n -> CuratedTexts] : n \in 0..MaxAwaitFiles}

(***************************************************************************)
(* errorhandling.js: the loop of analyzeErrorHandling over the files, as   *)
(* far as the await statistics go.                                         *)
(***************************************************************************)
EhAnalyzeFile ==
    /\ ehPc = "loop"
    /\ Len(ehStats) < Len(ehFiles)
    /\ LET awaitStats == countAwaitStats(ehFiles[Len(ehStats) + 1])
       IN  /\ ehStats' = Append(ehStats, awaitStats)
           /\ ehTotals' = addCounters(ehTotals, awaitStats)
    /\ UNCHANGED <<ehFiles, ehPc>>
    /\ UNCHANGED <<deadVars, nmVars, auVars, blVars, psVars, cfVars, plVars, wtVars>>

EhFinish ==
    /\ ehPc = "loop"
    /\ Len(ehStats) = Len(ehFiles)
    /\ ehPc' = "done"
    /\ UNCHANGED <<ehFiles, ehStats, ehTotals>>
    /\ UNCHANGED <<deadVars, nmVars, auVars, blVars, psVars, cfVars, plVars, wtVars>>

EhNext == EhAnalyzeFile \/ EhFinish

(***************************************************************************)
(* naming.js: identifier styles.  An identifier is the sequence of its     *)
(* characters; the characters of the model stand for their classes.        *)
(***************************************************************************)
LowerChars == {"a", "b"}
UpperChars == {"A", "B"}
DigitChars == {"1"}

\* /^[a-z][a-zA-Z0-9]*$/
matchesCamelCase(s) ==
    /\ s # <<>>
    /\ s[1] \in LowerChars
    /\ \A i \in 2..Len(s) : s[i] \in LowerChars \cup UpperChars \cup DigitChars

\* /^[a-z][a-z0-9]*(?:_[a-z0-9]+)+$/
matchesSnakeCase(s) ==
    /\ s # <<>>
    /\ s[1] \in LowerChars
    /\ \A i \in 1..Len(s) : s[i] \in LowerChars \cup DigitChars \cup {"_"}
    /\ \E i \in 1..Len(s) : s[i] = "_"
    /\ \A i \in 1..Len(s) : s[i] = "_" => (i < Len(s) /\ s[i + 1] # "_")

\* /^[A-Z][a-zA-Z0-9]*$/
matchesPascalCase(s) ==
    /\ s # <<>>
    /\ s[1] \in UpperChars
    /\ \A i \in 2..Len(s) : s[i] \in LowerChars \cup UpperChars \cup DigitChars

\* /^[A-Z][A-Z0-9]*(?:_[A-Z0-9]+)*$/
matchesScreamingSnake(s) ==
    /\ s # <<>>
    /\ s[1] \in UpperChars
    /\ \A i \in 1..Len(s) : s[i] \in UpperChars \cup DigitChars \cup {"_"}
    /\ \A i \in 1..Len(s) : s[i] = "_" => (i < Len(s) /\ s[i + 1] # "_")

\* Object.entries(IDENTIFIER_STYLES), in insertion order.
IDENTIFIER_STYLES == <<"camelCase", "snake_case", "PascalCase", "SCREAMING_SNAKE">>

matchesStyle(s, style) ==
    CASE style = "camelCase" -> matchesCamelCase(s)
      [] style = "snake_case" -> matchesSnakeCase(s)
      [] style = "PascalCase" -> matchesPascalCase(s)
      [] style = "SCREAMING_SNAKE" -> matchesScreamingSnake(s)

NoStyle == "null"

RECURSIVE styleOfFrom(_, _)
styleOfFrom(value, i) ==
    IF i > Len(IDENTIFIER_STYLES) THEN NoStyle
    ELSE IF matchesStyle(value, IDENTIFIER_STYLES[i]) THEN IDENTIFIER_STYLES[i]
    ELSE styleOfFrom(value, i + 1)

styleOf(value) == styleOfFrom(value, 1)

(***************************************************************************)
(* naming.js: analyzeNaming, as far as identifiers go.  An object is the   *)
(* sequence of its entries, in insertion order.                            *)
(***************************************************************************)
Entry(style, count) == [style |-> style, count |-> count]

\* Mutant: the tallies start empty and a style's entry is created when its
\* first identifier is counted.
identifierCountsCreatedOnUse == <<>>

\* const identifierCounts = { camelCase: 0, snake_case: 0, PascalCase: 0, SCREAMING_SNAKE: 0 }
identifierCountsAtStart ==
    <<Entry("camelCase", 0), Entry("snake_case", 0),
      Entry("PascalCase", 0), Entry("SCREAMING_SNAKE", 0)>>

\* identifierCounts[style] += 1
incrementCount(counts, style) ==
    IF \E i \in 1..Len(counts) : counts[i].style = style
    THEN [i \in 1..Len(counts) |->
            IF counts[i].style = style THEN Entry(style, counts[i].count + 1)
            ELSE counts[i]]
    ELSE Append(counts, Entry(style, 1))

\* The tallies after one file: identifierCounts and identifierFilesByStyle.
RECURSIVE countIdentifiers(_, _, _)
countIdentifiers(acc, relativePath, identifiers) ==
    IF identifiers = <<>> THEN acc
    ELSE LET style == styleOf(Head(identifiers))
             next == IF style = NoStyle THEN acc
                     ELSE [identifierCounts |-> incrementCount(acc.identifierCounts, style),
                           identifierFilesByStyle |->
                               [acc.identifierFilesByStyle EXCEPT ![style] = @ \cup {relativePath}]]
         IN  IF next = acc THEN countIdentifiers(acc, relativePath, Tail(identifiers))
             ELSE countIdentifiers(next, relativePath, Tail(identifiers))

RECURSIVE countFiles(_, _)
countFiles(acc, fs) ==
    IF fs = <<>> THEN acc
    ELSE countFiles(countIdentifiers(acc, Head(fs).relativePath, Head(fs).identifiers),
                    Tail(fs))

RECURSIVE sumCounts(_)
sumCounts(entries) ==
    IF entries = <<>> THEN 0 ELSE Head(entries).count + sumCounts(Tail(entries))

\* entries.sort((a, b) => b[1] - a[1]): a stable sort, larger counts first.
RECURSIVE insertByCount(_, _)
insertByCount(sorted, entry) ==
    IF sorted = <<>> THEN <<entry>>
    ELSE IF Head(sorted).count >= entry.count
         THEN <<Head(sorted)>> \o insertByCount(Tail(sorted), entry)
         ELSE <<entry>> \o sorted

RECURSIVE sortByCount(_, _)
sortByCount(sorted, entries) ==
    IF entries = <<>> THEN sorted
    ELSE sortByCount(insertByCount(sorted, Head(entries)), Tail(entries))

dominantFromCounts(counts) ==
    LET total == sumCounts(counts)
        sorted == sortByCount(<<>>, counts)
    IN  IF total = 0
        THEN [name |-> NoStyle, total |-> 0, count |-> 0, entries |-> <<>>]
        ELSE [name |-> sorted[1].style, total |-> total, count |-> sorted[1].count,
              entries |-> sorted]

\* Mutant: the percentage is truncated.
percentTruncated(count, total) == (100 * count) \div total

\* Math.round((count / total) * 100)
percentOf(count, total) == (200 * count + total) \div (2 * total)

analyzeNaming(fs) ==
    LET tallies == countFiles([identifierCounts |-> identifierCountsAtStart,
                               identifierFilesByStyle |->
                                   [st \in SeqToSet(IDENTIFIER_STYLES) |-> {}]], fs)
        dominant == dominantFromCounts(tallies.identifierCounts)
        dominantStyle == dominant.name
        minorityFiles ==
            IF dominantStyle = NoStyle THEN {}
            ELSE UNION {tallies.identifierFilesByStyle[st] :
                           st \in SeqToSet(IDENTIFIER_STYLES) \ {dominantStyle}}
    IN  [id |-> "naming",
         dominantIdentifierStyle |-> dominantStyle,
         dominantPercent |-> IF dominant.total = 0 THEN 0
                             ELSE percentOf(dominant.count, dominant.total),
         identifierCounts |-> tallies.identifierCounts,
         minorityFiles |-> minorityFiles]

(***************************************************************************)
(* The file lists the naming runs draw from: what collectIdentifiers       *)
(* returns for each file.                                                  *)
(***************************************************************************)
NamingTexts ==
    << <<<<"a", "b">>>>,                         \* ab
       <<<<"a", "_", "b">>>>,                    \* a_b
       <<<<"A", "b">>>>,                         \* Ab
       <<<<"A", "_", "B">>>>,                    \* A_B
       <<<<"a", "b">>, <<"a", "_", "b">>>>,      \* ab, a_b
       <<<<"$", "a">>, <<"a", "1">>>>,           \* $a, a1
       <<<<"A", "B">>, <<"A", "_", "B">>, <<"A", "_", "B">>>>,   \* AB, A_B, A_B
       <<>> >>

NamingPaths == <<"f1.js", "f2.js", "f3.js", "f4.js", "f5.js">>

NamingFile(i, text) ==
    [relativePath |-> <<"src", NamingPaths[i]>>, identifiers |-> NamingTexts[text]]

NamingFileLists ==
    UNION {{[i \in 1..n |-> NamingFile(i, c[i])] : c \in [1..n -> 1..Len(NamingTexts)]}
           : n \in 1..MaxNamingFiles}

\* The ten-file projects: nine files whose identifiers are all camelCase and
\* one, at any place, whose identifiers are all snake_case.  The first
\* camelCase file, the other eight and the snake_case file each contribute
\* their own number of identifiers.
TenFilePaths ==
    <<"f01.js", "f02.js", "f03.js", "f04.js", "f05.js",
      "f06.js", "f07.js", "f08.js", "f09.js", "f10.js">>

Repeated(identifier, count) == [j \in 1..count |-> identifier]

TenFileProject(snakeAt, first, others, snake) ==
    [i \in 1..Len(TenFilePaths) |->
        [relativePath |-> <<"src", TenFilePaths[i]>>,
         identifiers |->
             IF i = snakeAt THEN Repeated(<<"a", "_", "b">>, snake)
             ELSE IF i = (IF snakeAt = 1 THEN 2 ELSE 1) THEN Repeated(<<"a", "B">>, first)
             ELSE Repeated(<<"a", "b">>, others)]]

TenFileProjects ==
    {TenFileProject(snakeAt, first, others, snake)
     : snakeAt \in 1..Len(TenFilePaths),
       first \in 1..MaxFileIdentifiers,
       others \in 1..MaxFileIdentifiers,
       snake \in 1..MaxFileIdentifiers}

AnalyzeNaming ==
    /\ nmPc = "scanned"
    /\ naming' = analyzeNaming(nmFiles)
    /\ nmPc' = "analyzed"
    /\ UNCHANGED nmFiles
    /\ UNCHANGED <<deadVars, ehVars, auVars, blVars, psVars, cfVars, plVars, wtVars>>

NamingNext == AnalyzeNaming

(***************************************************************************)
(* The categories of the analyzers, from the counts each of them gathers.  *)
(* A ratio is kept as numerator and denominator.                           *)
(***************************************************************************)
Finding(severity, about) == [severity |-> severity, about |-> about]

FindingIf(condition, severity, about) ==
    IF condition THEN <<Finding(severity, about)>> ELSE <<>>

Category(id, score, severity, totalIssues, findings) ==
    [id |-> id, score |-> score, severity |-> severity,
     totalIssues |-> totalIssues, findings |-> findings, summary |-> id]

Flag(condition) == IF condition THEN 1 ELSE 0

\* naming.js: imbalanceRatio + issueCount / 120
namingScore(dominantCount, total, issueCount) ==
    IF total > 0
    THEN Min(10, scoreFromRatio((total - dominantCount) * 120 + issueCount * total,
                                120 * total, 10))
    ELSE Min(10, scoreFromRatio(issueCount, 120, 10))

namingCategory(s) ==
    LET issueCount == s.minorityFiles + s.mixedDirectories + s.componentMismatches
        score == namingScore(s.dominantCount, s.total, issueCount)
        findings ==
            FindingIf(s.minorityFiles > 0 /\ s.total > 0,
                      IF score >= 7 THEN "high" ELSE "medium", "minorityFiles")
            \o FindingIf(s.mixedDirectories > 0, "medium", "mixedDirectories")
            \o FindingIf(s.componentMismatches > 0, "medium", "componentMismatches")
    IN  Category("naming", score, severityFromScore(score), issueCount, findings)

\* patterns.js: inconsistencySignals / 8 + (asyncTotal ? thenChains / asyncTotal : 0)
patternsScore(inconsistencySignals, thenChains, asyncTotal) ==
    IF asyncTotal > 0
    THEN Min(10, scoreFromRatio(inconsistencySignals * asyncTotal + 8 * thenChains,
                                8 * asyncTotal, 10))
    ELSE Min(10, scoreFromRatio(inconsistencySignals, 8, 10))

patternsCategory(s) ==
    LET asyncTotal == s.asyncAwaitOps + s.thenChains + s.callbackStyle
        mixedModules == s.filesUsingImport > 0 /\ s.filesUsingRequire > 0
        mixedAsync == s.thenChains > 0 /\ s.asyncAwaitOps > 0
        findings ==
            FindingIf(s.httpClients > 1, "high", "httpClients")
            \o FindingIf(s.stateApproaches > 2, "medium", "stateManagement")
            \o FindingIf(mixedAsync, "medium", "asyncStyles")
            \o FindingIf(mixedModules, "medium", "moduleSystems")
            \o FindingIf(s.importStyleMixedLibs > 0, "low", "importStyles")
            \o FindingIf(s.stylingApproaches > 2, "medium", "styling")
            \o FindingIf(s.dataFetching > 1, "medium", "dataFetching")
        inconsistencySignals ==
            Max(0, s.httpClients - 1) + Max(0, s.stateApproaches - 2)
            + Max(0, s.stylingApproaches - 2) + Flag(mixedModules) + Flag(mixedAsync)
            + Max(0, s.dataFetching - 1)
        score == patternsScore(inconsistencySignals, s.thenChains, asyncTotal)
    IN  Category("patterns", score, severityFromScore(score), Len(findings), findings)

\* Category score = round(clamp(0, 1, signalRatio) * 10), the rule every
\* analyzer follows; the counts of these two analyzers are their inputs.
ratioCategory(id, s) ==
    LET score == scoreFromRatio(s.signal, s.denominator, 10)
    IN  Category(id, score, severityFromScore(score), Len(s.findings), s.findings)

leftoversCategory(s) == ratioCategory("leftovers", s)

securityCategory(s) == ratioCategory("security", s)

\* dependencies.js: (unused + duplicates * 2 + outdated) / max(allDeps * 0.5, 1)
dependenciesScore(unused, duplicates, outdated, allDeps) ==
    Min(10, scoreFromRatio(2 * (unused + duplicates * 2 + outdated), Max(allDeps, 2), 10))

dependenciesCategory(s) ==
    IF ~s.hasPackageJson THEN Category("dependencies", 0, "low", 0, <<>>)
    ELSE LET findings ==
                 FindingIf(s.unused > 0, IF s.unused >= 5 THEN "high" ELSE "medium", "unused")
                 \o FindingIf(s.duplicates > 0, "medium", "duplicates")
                 \o FindingIf(s.outdated > 0, "medium", "outdated")
             score == dependenciesScore(s.unused, s.duplicates, s.outdated, s.allDeps)
         IN  Category("dependencies", score, severityFromScore(score),
                      s.unused + s.duplicates + s.outdated, findings)

deadCodeCategory(s, fileCount) ==
    LET score == deadCodeScore(s.orphans * 2 + s.unusedExports + s.stubs, fileCount)
    IN  Category("deadcode", score, severityFromScore(score),
                 s.orphans + s.unusedExports + s.stubs,
                 deadCodeFindings(s.orphans, s.unusedExports, s.stubs))

\* Math.round((functionsWithTry / totalFunctions) * 100), or 100 without functions
handledRateOf(totalFunctions, tryBlocks) ==
    IF totalFunctions > 0
    THEN (200 * Min(totalFunctions, tryBlocks) + totalFunctions) \div (2 * totalFunctions)
    ELSE 100

\* errorhandling.js: signal / max(files.length * 0.8, 1), where signal sums
\* (50 - handledRate) / 18, emptyCatch * 1.5, catchLogOnly,
\* 2 * unhandledAwait / totalAwait and 2 * promiseWithoutCatch / thenChains.
errorHandlingScore(s, fileCount) ==
    LET handledRate == handledRateOf(s.totalFunctions, s.tryBlocks)
        promiseWithoutCatch == Max(0, s.thenChains - s.catchChains)
        a == Max(s.totalAwait, 1)
        t == Max(s.thenChains, 1)
        signal == (IF handledRate < 50 THEN 50 - handledRate ELSE 0) * a * t
                  + 27 * s.emptyCatch * a * t
                  + 18 * s.catchLogOnly * a * t
                  + (IF s.totalAwait > 0 THEN 36 * s.unhandledAwait * t ELSE 0)
                  + (IF s.thenChains > 0 THEN 36 * promiseWithoutCatch * a ELSE 0)
    IN  Min(10, scoreFromRatio(10 * signal, 18 * a * t * Max(8 * fileCount, 10), 10))

errorHandlingCategory(s, fileCount) ==
    LET handledRate == handledRateOf(s.totalFunctions, s.tryBlocks)
        promiseWithoutCatch == Max(0, s.thenChains - s.catchChains)
        mixedPatterns == Flag(s.throwCount > 0) + Flag(s.returnNullCount > 0)
                         + Flag(s.returnErrorObjectCount > 0)
        findings ==
            FindingIf(handledRate < 60, IF handledRate < 40 THEN "high" ELSE "medium",
                      "handledRate")
            \o FindingIf(s.emptyCatch > 0, "high", "emptyCatch")
            \o FindingIf(s.catchLogOnly > 0, "medium", "catchLogOnly")
            \o FindingIf(s.unhandledAwait > 0, "high", "unhandledAwait")
            \o FindingIf(promiseWithoutCatch > 0, "medium", "promiseWithoutCatch")
            \o FindingIf(mixedPatterns > 1, "medium", "mixedPatterns")
        score == errorHandlingScore(s, fileCount)
    IN  Category("errorhandling", score, severityFromScore(score), Len(findings), findings)

\* tsquality.js: weightedSignal / max(tsFiles.length * 2.5, 1)
tsQualityScore(s) ==
    LET mixedAssertions == s.asAssertions > 0 /\ s.angleAssertions > 0
        weightedSignal == 16 * s.explicitAny + 18 * s.suppressions
                          + 7 * s.missingReturnType + 5 * s.nonNull
                          + 30 * Flag(mixedAssertions)
    IN  Min(10, scoreFromRatio(weightedSignal, 5 * Max(5 * s.tsFiles, 2), 10))

tsQualityCategory(s) ==
    IF s.tsFiles = 0 THEN Category("tsquality", 0, "low", 0, <<>>)
    ELSE LET findings ==
                 FindingIf(s.explicitAny > 0,
                           IF s.explicitAny >= 6 THEN "high" ELSE "medium", "explicitAny")
                 \o FindingIf(s.suppressions > 0,
                              IF s.suppressions >= 4 THEN "high" ELSE "medium", "suppressions")
                 \o FindingIf(s.asAssertions > 0 /\ s.angleAssertions > 0, "medium",
                              "assertionStyles")
                 \o FindingIf(s.missingReturnType > 0,
                              IF s.missingReturnType >= 8 THEN "medium" ELSE "low",
                              "missingReturnType")
                 \o FindingIf(s.nonNull > 0,
                              IF s.nonNull >= 10 THEN "medium" ELSE "low", "nonNull")
             score == tsQualityScore(s)
         IN  Category("tsquality", score, severityFromScore(score), Len(findings), findings)

\* frameworks.js: weightedSignals / max(files.length * 0.7, 1)
frameworksScore(s, fileCount) ==
    LET weightedSignals ==
            20 * s.reactDangerousHtml + 10 * s.reactAsyncUseEffect + 5 * s.reactIndexKey
            + 10 * s.nextLegacyData + 10 * s.nextRouterInAppDir
            + 10 * s.expressWildcardCors + 20 * s.expressErrorLeak
            + 12 * s.expressSyncFsInRoute
    IN  Min(10, scoreFromRatio(weightedSignals, Max(7 * fileCount, 10), 10))

frameworksCategory(s, fileCount) ==
    LET findings ==
            FindingIf(s.reactDangerousHtml > 0, "high", "reactDangerousHtml")
            \o FindingIf(s.reactAsyncUseEffect > 0, "medium", "reactAsyncUseEffect")
            \o FindingIf(s.reactIndexKey > 0,
                         IF s.reactIndexKey >= 8 THEN "medium" ELSE "low", "reactIndexKey")
            \o FindingIf(s.nextLegacyData > 0, "medium", "nextLegacyData")
            \o FindingIf(s.nextRouterInAppDir > 0, "medium", "nextRouterInAppDir")
            \o FindingIf(s.expressWildcardCors > 0, "medium", "expressWildcardCors")
            \o FindingIf(s.expressErrorLeak > 0, "high", "expressErrorLeak")
            \o FindingIf(s.expressSyncFsInRoute > 0, "medium", "expressSyncFsInRoute")
        score == frameworksScore(s, fileCount)
    IN  IF s.detectedFrameworks = 0
        THEN Category("frameworks", 0, "low", Len(findings), findings)
        ELSE Category("frameworks", score, severityFromScore(score), Len(findings), findings)

(***************************************************************************)
(* index.js: the severity filter, the scores of the report, the gates.     *)
(***************************************************************************)
SEVERITY_RANK == [low |-> 1, medium |-> 2, high |-> 3]

Severities == {"low", "medium", "high"}

\* Mutant: a finding is kept only when its rank is above the threshold.
RECURSIVE keepFindingsAbove(_, _)
keepFindingsAbove(findings, threshold) ==
    IF findings = <<>> THEN <<>>
    ELSE (IF SEVERITY_RANK[Head(findings).severity] > threshold
          THEN <<Head(findings)>> ELSE <<>>)
         \o keepFindingsAbove(Tail(findings), threshold)

RECURSIVE keepFindings(_, _)
keepFindings(findings, threshold) ==
    IF findings = <<>> THEN <<>>
    ELSE (IF SEVERITY_RANK[Head(findings).severity] >= threshold
          THEN <<Head(findings)>> ELSE <<>>)
         \o keepFindings(Tail(findings), threshold)

keepCategory(category, filteredFindings, threshold) ==
    SEVERITY_RANK[category.severity] >= threshold \/ Len(filteredFindings) > 0

RECURSIVE applySeverityFilter(_, _)
applySeverityFilter(categories, minimumSeverity) ==
    IF categories = <<>> THEN <<>>
    ELSE LET category == Head(categories)
             threshold == SEVERITY_RANK[minimumSeverity]
             filteredFindings ==
                 IF threshold <= SEVERITY_RANK.low THEN category.findings
                 ELSE keepFindings(category.findings, threshold)
             hasFindings == Len(filteredFindings) > 0
             kept == [category EXCEPT
                        !.findings = filteredFindings,
                        !.totalIssues = IF threshold <= SEVERITY_RANK.low THEN @
                                        ELSE Len(filteredFindings),
                        !.summary = IF threshold <= SEVERITY_RANK.low \/ hasFindings THEN @
                                    ELSE "No " \o minimumSeverity
                                         \o "+ findings for this category."]
         IN  (IF keepCategory(category, filteredFindings, threshold)
              THEN <<kept>> ELSE <<>>)
             \o applySeverityFilter(Tail(categories), minimumSeverity)

RECURSIVE sumScores(_)
sumScores(categories) ==
    IF categories = <<>> THEN 0 ELSE Head(categories).score + sumScores(Tail(categories))

RECURSIVE sumTotalIssues(_)
sumTotalIssues(categories) ==
    IF categories = <<>> THEN 0
    ELSE Head(categories).totalIssues + sumTotalIssues(Tail(categories))

\* Mutant: the average is truncated, not rounded.
overallScoreTruncated(categories) ==
    LET n == Len(categories)
    IN  IF n = 0 THEN 100
        ELSE Max(0, Min(100, (100 * n - 10 * sumScores(categories)) \div n))

\* Math.max(0, Math.min(100, Math.round(100 - averageIssueScore * 10)))
overallScoreOf(categories) ==
    LET n == Len(categories)
    IN  IF n = 0 THEN 100
        ELSE Max(0, Min(100, (200 * n - 20 * sumScores(categories) + n) \div (2 * n)))

\* A limit of the configuration is absent or holds one value.
NoLimit == <<>>

Limit(value) == <<value>>

buildReport(fileCount, categoryList, minimumSeverity) ==
    LET filteredCategories == applySeverityFilter(categoryList, minimumSeverity)
    IN  [fileCount |-> fileCount,
         categories |-> filteredCategories,
         totalIssues |-> sumTotalIssues(filteredCategories),
         overallScore |-> overallScoreOf(filteredCategories),
         scanWarnings |-> <<>>,
         baselineComparison |-> NoResult,
         gateFailures |-> <<>>,
         passedGates |-> FALSE]

\* The report of the early return.
noFilesReport ==
    [fileCount |-> 0, categories |-> <<>>, totalIssues |-> 0, overallScore |-> 100,
     scanWarnings |-> <<>>,
     baselineComparison |-> NoResult, gateFailures |-> <<>>, passedGates |-> TRUE]

RECURSIVE allFindings(_)
allFindings(categories) ==
    IF categories = <<>> THEN <<>>
    ELSE Head(categories).findings \o allFindings(Tail(categories))

\* Mutant: the severity gate compares with the rank of "high" whatever failOn is.
collectGateFailuresHighOnly(rep, cfg) ==
    (IF cfg.minScore # NoLimit
     THEN (IF rep.overallScore < cfg.minScore[1] THEN <<"Score gate failed">> ELSE <<>>)
     ELSE <<>>)
    \o (IF cfg.maxIssues # NoLimit
        THEN (IF rep.totalIssues > cfg.maxIssues[1] THEN <<"Issue gate failed">> ELSE <<>>)
        ELSE <<>>)
    \o (IF cfg.failOn # NoLimit
        THEN (IF Len(keepFindings(allFindings(rep.categories), SEVERITY_RANK["high"])) > 0
              THEN <<"Severity gate failed">> ELSE <<>>)
        ELSE <<>>)

collectGateFailures(rep, cfg) ==
    (IF cfg.minScore # NoLimit
     THEN (IF rep.overallScore < cfg.minScore[1] THEN <<"Score gate failed">> ELSE <<>>)
     ELSE <<>>)
    \o (IF cfg.maxIssues # NoLimit
        THEN (IF rep.totalIssues > cfg.maxIssues[1] THEN <<"Issue gate failed">> ELSE <<>>)
        ELSE <<>>)
    \o (IF cfg.failOn # NoLimit
        THEN (IF Len(keepFindings(allFindings(rep.categories), SEVERITY_RANK[cfg.failOn[1]])) > 0
              THEN <<"Severity gate failed">> ELSE <<>>)
        ELSE <<>>)

(***************************************************************************)
(* baseline.js                                                             *)
(***************************************************************************)
RECURSIVE countSeverity(_, _)
countSeverity(findings, severity) ==
    IF findings = <<>> THEN 0
    ELSE Flag(Head(findings).severity = severity) + countSeverity(Tail(findings), severity)

countFindingsBySeverity(categories) ==
    [severity \in Severities |-> countSeverity(allFindings(categories), severity)]

\* Mutant: the snapshot records a category's issue count as its score.
categorySnapshotIssuesAsScore(categories) ==
    LET ids == {categories[i].id : i \in 1..Len(categories)}
        last(id) == CHOOSE i \in 1..Len(categories) :
                        /\ categories[i].id = id
                        /\ \A j \in (i + 1)..Len(categories) : categories[j].id # id
    IN  [id \in ids |-> [score |-> categories[last(id)].totalIssues,
                         totalIssues |-> categories[last(id)].totalIssues,
                         severity |-> categories[last(id)].severity]]

\* An object keyed by category id: the later entry of an id wins.
categorySnapshot(categories) ==
    LET ids == {categories[i].id : i \in 1..Len(categories)}
        last(id) == CHOOSE i \in 1..Len(categories) :
                        /\ categories[i].id = id
                        /\ \A j \in (i + 1)..Len(categories) : categories[j].id # id
    IN  [id \in ids |-> [score |-> categories[last(id)].score,
                         totalIssues |-> categories[last(id)].totalIssues,
                         severity |-> categories[last(id)].severity]]

buildBaselineSnapshot(rep) ==
    [version |-> 1,
     overallScore |-> rep.overallScore,
     totalIssues |-> rep.totalIssues,
     findingCounts |-> countFindingsBySeverity(rep.categories),
     categories |-> categorySnapshot(rep.categories)]

\* Mutant: a category the baseline does not know counts from score 0.
worsenedCategoriesFromZero(categories, baselineCategoryMap) ==
    SelectSeq(categories,
              LAMBDA category :
                  IF category.id \in DOMAIN baselineCategoryMap
                  THEN category.score - baselineCategoryMap[category.id].score > 0
                  ELSE category.score > 0)

worsenedCategories(categories, baselineCategoryMap) ==
    SelectSeq(categories,
              LAMBDA category :
                  /\ category.id \in DOMAIN baselineCategoryMap
                  /\ category.score - baselineCategoryMap[category.id].score > 0)

compareAgainstBaseline(rep, baselineSnapshot) ==
    LET currentFindingCounts == countFindingsBySeverity(rep.categories)
        baselineFindingCounts == baselineSnapshot.findingCounts
        deltas ==
            [score |-> rep.overallScore - baselineSnapshot.overallScore,
             totalIssues |-> rep.totalIssues - baselineSnapshot.totalIssues,
             highFindings |-> currentFindingCounts.high - baselineFindingCounts.high,
             mediumFindings |-> currentFindingCounts.medium - baselineFindingCounts.medium]
        worsened == worsenedCategories(rep.categories, baselineSnapshot.categories)
        regressions ==
            (IF deltas.score < 0 THEN <<"overall score dropped">> ELSE <<>>)
            \o (IF deltas.totalIssues > 0 THEN <<"total issues increased">> ELSE <<>>)
            \o (IF deltas.highFindings > 0
                THEN <<"high-severity findings increased">> ELSE <<>>)
            \o (IF Len(worsened) > 0 THEN <<"category scores worsened">> ELSE <<>>)
    IN  [baselineScore |-> baselineSnapshot.overallScore,
         baselineTotalIssues |-> baselineSnapshot.totalIssues,
         currentScore |-> rep.overallScore,
         currentTotalIssues |-> rep.totalIssues,
         deltas |-> deltas,
         worsenedCategories |-> [i \in 1..Len(worsened) |-> worsened[i].id],
         regressions |-> regressions,
         missing |-> FALSE]

\* Mutant: a baseline that cannot be used counts as a regression.
missingBaselineAsRegression ==
    [regressions |-> <<"Baseline file not found or invalid">>, missing |-> TRUE]

\* The comparison section when the baseline file cannot be used.
missingBaselineComparison ==
    [regressions |-> <<>>, missing |-> TRUE]

(***************************************************************************)
(* The projects and configurations the audits draw from.  A project is the *)
(* number of scanned files and the counts each analyzer gathers from them. *)
(***************************************************************************)
Analyzers == <<"naming", "patterns", "leftovers", "security", "dependencies",
               "deadcode", "errorhandling", "tsquality">>

NoFrameworkSignals ==
    [detectedFrameworks |-> 0, reactDangerousHtml |-> 0, reactAsyncUseEffect |-> 0,
     reactIndexKey |-> 0, nextLegacyData |-> 0, nextRouterInAppDir |-> 0,
     expressWildcardCors |-> 0, expressErrorLeak |-> 0, expressSyncFsInRoute |-> 0]

FrameworkSignals ==
    {NoFrameworkSignals,
     [NoFrameworkSignals EXCEPT !.detectedFrameworks = 1, !.reactIndexKey = 1],
     [NoFrameworkSignals EXCEPT !.detectedFrameworks = 2, !.reactDangerousHtml = 2,
                                !.expressErrorLeak = 1, !.expressSyncFsInRoute = 3]}

NoFileSignals ==
    [naming |-> [dominantCount |-> 0, total |-> 0, minorityFiles |-> 0,
                 mixedDirectories |-> 0, componentMismatches |-> 0],
     patterns |-> [httpClients |-> 0, stateApproaches |-> 0, stylingApproaches |-> 0,
                   dataFetching |-> 0, filesUsingImport |-> 0, filesUsingRequire |-> 0,
                   importStyleMixedLibs |-> 0, thenChains |-> 0, asyncAwaitOps |-> 0,
                   callbackStyle |-> 0],
     leftovers |-> [signal |-> 0, denominator |-> 1, findings |-> <<>>],
     security |-> [signal |-> 0, denominator |-> 1, findings |-> <<>>],
     dependencies |-> [hasPackageJson |-> TRUE, unused |-> 2, duplicates |-> 0,
                       outdated |-> 0, allDeps |-> 2],
     deadcode |-> [orphans |-> 0, unusedExports |-> 0, stubs |-> 0],
     errorhandling |-> [totalFunctions |-> 0, tryBlocks |-> 0, emptyCatch |-> 0,
                        catchLogOnly |-> 0, totalAwait |-> 0, unhandledAwait |-> 0,
                        thenChains |-> 0, catchChains |-> 0, throwCount |-> 0,
                        returnNullCount |-> 0, returnErrorObjectCount |-> 0],
     tsquality |-> [tsFiles |-> 0, explicitAny |-> 0, suppressions |-> 0,
                    asAssertions |-> 0, angleAssertions |-> 0, missingReturnType |-> 0,
                    nonNull |-> 0]]

\* For each analyzer the counts of a quiet and of a noisy tree.
SignalChoices ==
    [naming |->
        <<[dominantCount |-> 10, total |-> 10, minorityFiles |-> 0,
           mixedDirectories |-> 0, componentMismatches |-> 0],
          [dominantCount |-> 3, total |-> 10, minorityFiles |-> 3,
           mixedDirectories |-> 1, componentMismatches |-> 0]>>,
     patterns |->
        <<[httpClients |-> 1, stateApproaches |-> 1, stylingApproaches |-> 1,
           dataFetching |-> 1, filesUsingImport |-> 4, filesUsingRequire |-> 0,
           importStyleMixedLibs |-> 1, thenChains |-> 0, asyncAwaitOps |-> 4,
           callbackStyle |-> 0],
          [httpClients |-> 3, stateApproaches |-> 3, stylingApproaches |-> 3,
           dataFetching |-> 2, filesUsingImport |-> 3, filesUsingRequire |-> 1,
           importStyleMixedLibs |-> 0, thenChains |-> 4, asyncAwaitOps |-> 4,
           callbackStyle |-> 0]>>,
     leftovers |->
        <<[signal |-> 0, denominator |-> 4, findings |-> <<>>],
          [signal |-> 2, denominator |-> 4,
           findings |-> <<Finding("low", "todo"), Finding("medium", "console")>>]>>,
     security |->
        <<[signal |-> 0, denominator |-> 4, findings |-> <<>>],
          [signal |-> 9, denominator |-> 4, findings |-> <<Finding("high", "secret")>>]>>,
     dependencies |->
        <<[hasPackageJson |-> FALSE, unused |-> 0, duplicates |-> 0, outdated |-> 0,
           allDeps |-> 0],
          [hasPackageJson |-> TRUE, unused |-> 1, duplicates |-> 0, outdated |-> 1,
           allDeps |-> 10]>>,
     deadcode |->
        <<[orphans |-> 0, unusedExports |-> 0, stubs |-> 0],
          [orphans |-> 2, unusedExports |-> 1, stubs |-> 1]>>,
     errorhandling |->
        <<[totalFunctions |-> 4, tryBlocks |-> 4, emptyCatch |-> 0, catchLogOnly |-> 0,
           totalAwait |-> 2, unhandledAwait |-> 0, thenChains |-> 0, catchChains |-> 0,
           throwCount |-> 1, returnNullCount |-> 0, returnErrorObjectCount |-> 0],
          [totalFunctions |-> 10, tryBlocks |-> 2, emptyCatch |-> 1, catchLogOnly |-> 0,
           totalAwait |-> 4, unhandledAwait |-> 2, thenChains |-> 2, catchChains |-> 1,
           throwCount |-> 1, returnNullCount |-> 1, returnErrorObjectCount |-> 0]>>,
     tsquality |->
        <<[tsFiles |-> 0, explicitAny |-> 0, suppressions |-> 0, asAssertions |-> 0,
           angleAssertions |-> 0, missingReturnType |-> 0, nonNull |-> 0],
          [tsFiles |-> 2, explicitAny |-> 1, suppressions |-> 0, asAssertions |-> 1,
           angleAssertions |-> 0, missingReturnType |-> 1, nonNull |-> 1]>>]

AnalyzerIds == SeqToSet(Analyzers)

Projects ==
    {[fileCount |-> 0, signals |-> NoFileSignals]}
    \cup {[fileCount |-> MaxAuditFiles,
           signals |-> [a \in AnalyzerIds |-> SignalChoices[a][level[a]]]]
          : level \in [AnalyzerIds -> 1..2]}

NoisyProject ==
    [fileCount |-> MaxAuditFiles, signals |-> [a \in AnalyzerIds |-> SignalChoices[a][2]]]

GateChoices ==
    {[minScore |-> NoLimit, maxIssues |-> NoLimit, failOn |-> NoLimit],
     [minScore |-> Limit(70), maxIssues |-> Limit(3), failOn |-> Limit("high")]}

BaselineChoices ==
    {[baseline |-> FALSE, failOnRegression |-> TRUE],
     [baseline |-> TRUE, failOnRegression |-> TRUE],
     [baseline |-> TRUE, failOnRegression |-> FALSE]}

\* config.rules: the analyzers switched off.
DisabledChoices == {{}, {"naming", "leftovers", "dependencies", "tsquality"}}

Configs ==
    {[severity |-> sv, minScore |-> g.minScore, maxIssues |-> g.maxIssues,
      failOn |-> g.failOn, baseline |-> b.baseline,
      failOnRegression |-> b.failOnRegression, disabled |-> d]
     : sv \in Severities, g \in GateChoices, b \in BaselineChoices, d \in DisabledChoices}

GatedConfig ==
    [severity |-> "low", minScore |-> Limit(70), maxIssues |-> Limit(3),
     failOn |-> Limit("high"), baseline |-> TRUE, failOnRegression |-> TRUE,
     disabled |-> {}]

(***************************************************************************)
(* index.js: runAudit                                                      *)
(***************************************************************************)
analyzerCategory(id, proj) ==
    CASE id = "naming" -> namingCategory(proj.signals.naming)
      [] id = "patterns" -> patternsCategory(proj.signals.patterns)
      [] id = "leftovers" -> leftoversCategory(proj.signals.leftovers)
      [] id = "security" -> securityCategory(proj.signals.security)
      [] id = "dependencies" -> dependenciesCategory(proj.signals.dependencies)
      [] id = "deadcode" -> deadCodeCategory(proj.signals.deadcode, proj.fileCount)
      [] id = "errorhandling" ->
             errorHandlingCategory(proj.signals.errorhandling, proj.fileCount)
      [] id = "tsquality" -> tsQualityCategory(proj.signals.tsquality)

\* if (enabledRules.<id> !== false) categoryResults.push(analyze<Id>(...)), in order
RECURSIVE runAnalyzers(_, _, _)
runAnalyzers(ids, proj, disabled) ==
    IF ids = <<>> THEN <<>>
    ELSE (IF Head(ids) \in disabled THEN <<>> ELSE <<analyzerCategory(Head(ids), proj)>>)
         \o runAnalyzers(Tail(ids), proj, disabled)

\* Mutant: the scan is never taken to be empty.
scanNeverEmpty(fileCount) == FALSE

\* scanResult.files.length === 0
scanYieldsNoFiles(fileCount) == fileCount = 0

\* The baseline files of the runs: none, one that cannot be read, one that
\* is not JSON, the JSON text null, or the snapshot of an earlier report.
NoFile == [missing |-> TRUE]

UnreadableFile == [unreadable |-> TRUE]

InvalidJsonFile == [invalidJson |-> TRUE]

NullJsonFile == [json |-> "null"]

\* fs.readFile or JSON.parse throws.
readBaselineSnapshotThrows(file) == file \in {NoFile, UnreadableFile, InvalidJsonFile}

\* baselineSnapshot.findingCounts throws on null.
compareAgainstBaselineThrows(snapshot) == snapshot = NullJsonFile

\* try { read, compare } catch { warn, mark missing }
withBaselineComparison(rep, file) ==
    IF readBaselineSnapshotThrows(file) \/ compareAgainstBaselineThrows(file)
    THEN [rep EXCEPT !.scanWarnings = Append(@, "Baseline file not found or invalid"),
                     !.baselineComparison = missingBaselineComparison]
    ELSE [rep EXCEPT !.baselineComparison = compareAgainstBaseline(rep, file)]

BaselineFiles ==
    {NoFile,
     buildBaselineSnapshot(noFilesReport),
     buildBaselineSnapshot(
         buildReport(MaxAuditFiles, runAnalyzers(Analyzers, NoisyProject, {}), "low"))}

\* A run is a configuration and the baseline file of the tree: every
\* configuration with every usable or missing file, and some configurations
\* more: with a file that cannot be used, with every analyzer switched off,
\* and with the severity ceiling alone at each level.
AuditRuns ==
    {[config |-> c, baselineFile |-> f]
     : c \in {cfg \in Configs : cfg.baseline}, f \in BaselineFiles}
    \cup {[config |-> c, baselineFile |-> NoFile] : c \in {cfg \in Configs : ~cfg.baseline}}
    \cup {[config |-> GatedConfig, baselineFile |-> f]
          : f \in {UnreadableFile, InvalidJsonFile, NullJsonFile}}
    \cup {[config |-> [GatedConfig EXCEPT !.disabled = AnalyzerIds, !.baseline = b],
           baselineFile |-> NoFile] : b \in BOOLEAN}
    \cup {[config |-> [GatedConfig EXCEPT !.minScore = NoLimit, !.maxIssues = NoLimit,
                                          !.failOn = Limit(sv), !.baseline = FALSE],
           baselineFile |-> NoFile] : sv \in Severities}

\* Configuration is loaded and the tree scanned; without files the report
\* is returned at once.
ScanProject ==
    /\ auPc = "scan"
    /\ IF scanYieldsNoFiles(project.fileCount)
       THEN /\ report' = noFilesReport
            /\ auPc' = "returned"
       ELSE /\ auPc' = "analyze"
            /\ UNCHANGED report
    /\ UNCHANGED <<project, config, baselineFile, categoryResults, frameworks, exitCode>>
    /\ UNCHANGED <<deadVars, ehVars, nmVars, blVars, psVars, cfVars, plVars, wtVars>>

RunAnalyzers ==
    /\ auPc = "analyze"
    /\ categoryResults' = runAnalyzers(Analyzers, project, config.disabled)
    /\ auPc' = "report"
    /\ UNCHANGED <<project, config, baselineFile, report, frameworks, exitCode>>
    /\ UNCHANGED <<deadVars, ehVars, nmVars, blVars, psVars, cfVars, plVars, wtVars>>

BuildReport ==
    /\ auPc = "report"
    /\ report' = buildReport(project.fileCount, categoryResults, config.severity)
    /\ auPc' = IF config.baseline THEN "baseline" ELSE "gates"
    /\ UNCHANGED <<project, config, baselineFile, categoryResults, frameworks, exitCode>>
    /\ UNCHANGED <<deadVars, ehVars, nmVars, blVars, psVars, cfVars, plVars, wtVars>>

ReadBaseline ==
    /\ auPc = "baseline"
    /\ report' = withBaselineComparison(report, baselineFile)
    /\ auPc' = "gates"
    /\ UNCHANGED <<project, config, baselineFile, categoryResults, frameworks, exitCode>>
    /\ UNCHANGED <<deadVars, ehVars, nmVars, blVars, psVars, cfVars, plVars, wtVars>>

CollectGates ==
    /\ auPc = "gates"
    /\ LET regressions ==
               IF /\ config.failOnRegression
                  /\ report.baselineComparison # NoResult
               THEN report.baselineComparison.regressions
               ELSE <<>>
           gateFailures == collectGateFailures(report, config) \o regressions
       IN  report' = [report EXCEPT !.gateFailures = gateFailures,
                                    !.passedGates = (Len(gateFailures) = 0)]
    /\ auPc' = "returned"
    /\ UNCHANGED <<project, config, baselineFile, categoryResults, frameworks, exitCode>>
    /\ UNCHANGED <<deadVars, ehVars, nmVars, blVars, psVars, cfVars, plVars, wtVars>>

\* analyzeFrameworks is not one of the analyzers of runAudit; it is run on the
\* audited tree by itself.
AnalyzeFrameworks ==
    /\ auPc = "returned"
    /\ frameworks = NoResult
    /\ \E s \in (IF project.fileCount = 0 THEN {NoFrameworkSignals} ELSE FrameworkSignals) :
          frameworks' = frameworksCategory(s, project.fileCount)
    /\ UNCHANGED <<project, config, baselineFile, categoryResults, report, auPc, exitCode>>
    /\ UNCHANGED <<deadVars, ehVars, nmVars, blVars, psVars, cfVars, plVars, wtVars>>

\* The CLI prints the report and sets the exit code.
CliExit ==
    /\ auPc = "returned"
    /\ exitCode' = IF Len(report.gateFailures) > 0 THEN 1 ELSE exitCode
    /\ auPc' = "exited"
    /\ UNCHANGED <<project, config, baselineFile, categoryResults, report, frameworks>>
    /\ UNCHANGED <<deadVars, ehVars, nmVars, blVars, psVars, cfVars, plVars, wtVars>>

AuditNext ==
    \/ ScanProject
    \/ RunAnalyzers
    \/ BuildReport
    \/ ReadBaseline
    \/ CollectGates
    \/ AnalyzeFrameworks
    \/ CliExit

(***************************************************************************)
(* The baseline runs: a snapshot is written from one report and a later    *)
(* report is compared against it.                                          *)
(***************************************************************************)
NamingResults ==
    {Category("naming", score, severityFromScore(score), issues, findings)
     : score \in {0, 4}, issues \in 0..MaxBaselineIssues,
       findings \in {<<>>, <<Finding("high", "minorityFiles")>>,
                     <<Finding("medium", "mixedDirectories")>>}}

DeadCodeResults ==
    {Category("deadcode", 0, "low", 0, <<>>),
     Category("deadcode", 4, "medium", 1, <<Finding("medium", "unusedExport")>>)}

BaselineReports ==
    {buildReport(MaxAuditFiles, categoryList, "low")
     : categoryList \in {<<>>} \cup {<<n>> : n \in NamingResults}
                        \cup {<<d>> : d \in DeadCodeResults}
                        \cup {<<n, d>> : n \in NamingResults, d \in DeadCodeResults}}

WriteBaseline ==
    /\ blPc = "write"
    /\ blSnapshot' = buildBaselineSnapshot(blBaseReport)
    /\ blPc' = "compare"
    /\ UNCHANGED <<blBaseReport, blReport, blComparison>>
    /\ UNCHANGED <<deadVars, ehVars, nmVars, auVars, psVars, cfVars, plVars, wtVars>>

CompareAgainstBaseline ==
    /\ blPc = "compare"
    /\ blComparison' = compareAgainstBaseline(blReport, blSnapshot)
    /\ blPc' = "compared"
    /\ UNCHANGED <<blBaseReport, blReport, blSnapshot>>
    /\ UNCHANGED <<deadVars, ehVars, nmVars, auVars, psVars, cfVars, plVars, wtVars>>

BaselineNext == WriteBaseline \/ CompareAgainstBaseline

(***************************************************************************)
(* utils.js: the syntax resolver.  A text is the sequence of its           *)
(* statements, each of one kind:                                           *)
(*   "js"         parses as a module and as a script                       *)
(*   "esm"        import/export: parses as a module only                   *)
(*   "sloppy"     e.g. a with statement: parses as a script only           *)
(*   "importType" import type ... from: stripped to an import              *)
(*   "interface", "typeAlias": stripped away                               *)
(*   "asConst"    x as const: stripped to an expression                    *)
(*   "nestedInterface" an interface with a nested body: stripped up to     *)
(*                its first closing brace, the rest never parses           *)
(*   "annotated"  other type syntax: never stripped, never parses          *)
(***************************************************************************)
StatementKinds ==
    {"js", "esm", "sloppy", "importType", "interface", "typeAlias", "asConst",
     "nestedInterface", "annotated"}

parsesAs(kind, sourceType) ==
    \/ kind = "js"
    \/ kind = "esm" /\ sourceType = "module"
    \/ kind = "sloppy" /\ sourceType = "script"

RECURSIVE stripTypeOnlySyntax(_)
stripTypeOnlySyntax(content) ==
    IF content = <<>> THEN <<>>
    ELSE LET kind == Head(content)
         IN  (CASE kind = "importType" -> <<"esm">>
                [] kind \in {"interface", "typeAlias"} -> <<>>
                [] kind = "asConst" -> <<"js">>
                [] kind = "nestedInterface" -> <<"annotated">>
                [] OTHER -> <<kind>>)
             \o stripTypeOnlySyntax(Tail(content))

NoTree == [type |-> "null"]

\* AcornWithJsx.parse inside try/catch: the tree, or null and the error.
tryParse(content, sourceType) ==
    IF \A i \in 1..Len(content) : parsesAs(content[i], sourceType)
    THEN [ast |-> [type |-> "Program", sourceType |-> sourceType, body |-> content],
          error |-> "null"]
    ELSE [ast |-> NoTree, error |-> "SyntaxError"]

\* Mutant: the script parse is left out.
firstParseModuleOnly(content) == tryParse(content, "module")

\* The module parse, and the script parse when that one fails.
firstParse(content) ==
    IF tryParse(content, "module").ast # NoTree THEN tryParse(content, "module")
    ELSE tryParse(content, "script")

parseAstWithMeta(content) ==
    LET direct == firstParse(content)
        stripped == stripTypeOnlySyntax(content)
        retried == firstParse(stripped)
    IN  IF direct.ast # NoTree
        THEN [ast |-> direct.ast, usedTypeSyntaxFallback |-> FALSE]
        ELSE IF stripped # content /\ retried.ast # NoTree
        THEN [ast |-> retried.ast, usedTypeSyntaxFallback |-> TRUE]
        ELSE [ast |-> NoTree, usedTypeSyntaxFallback |-> FALSE]

Texts == UNION {[1..n -> StatementKinds] : n \in 0..MaxStatements}

ParseFile ==
    /\ psPc = "read"
    /\ psResult' = parseAstWithMeta(psContent)
    /\ psPc' = "parsed"
    /\ UNCHANGED psContent
    /\ UNCHANGED <<deadVars, ehVars, nmVars, auVars, blVars, cfVars, plVars, wtVars>>

ParseNext == ParseFile

(***************************************************************************)
(* config.js: objects are functions from keys to values, arrays are        *)
(* sequences.  Of DEFAULT_CONFIG the keys a profile preset sets (ignore,   *)
(* leftovers) and the profile itself are kept.                             *)
(***************************************************************************)
EmptyObject == [key \in {} |-> <<>>]

DEFAULT_CONFIG ==
    [ignore |-> <<>>,
     profile |-> "app",
     leftovers |-> [allowConsolePaths |-> <<>>, ignoreTodoPaths |-> <<>>]]

PROFILE_PRESETS ==
    [app |-> [ignore |-> <<>>],
     library |-> [ignore |-> <<"examples/**", "example/**", "benchmarks/**",
                               "benchmark/**", "playground/**">>],
     cli |-> [ignore |-> <<"test/**", "**/*.test.js", "**/*.spec.js">>,
              leftovers |-> [allowConsolePaths |-> <<"bin/", "scripts/", "test/">>,
                             ignoreTodoPaths |-> <<"test/">>]]]

VALID_PROFILES == DOMAIN PROFILE_PRESETS

\* The keys whose values are plain objects, in the configuration and in
\* every preset and file.
ObjectKeys == {"leftovers"}

RECURSIVE deepMerge(_, _)
deepMerge(base, override) ==
    [key \in DOMAIN base \cup DOMAIN override |->
        IF key \notin DOMAIN override THEN base[key]
        ELSE IF key \in ObjectKeys /\ key \in DOMAIN base
             THEN deepMerge(base[key], override[key])
             ELSE override[key]]

\* [...new Set(input.filter(Boolean))]: the empty string is dropped, the
\* first occurrence of a value keeps its place.
RECURSIVE uniqueArray(_)
uniqueArray(input) ==
    IF input = <<>> THEN <<>>
    ELSE LET front == uniqueArray(SubSeq(input, 1, Len(input) - 1))
             last == input[Len(input)]
         IN  IF last = "" \/ \E i \in 1..Len(front) : front[i] = last
             THEN front
             ELSE Append(front, last)

toLowerCase(name) ==
    IF name = "CLI" THEN "cli" ELSE name

trim(item) ==
    IF item = " tmp/**" THEN "tmp/**"
    ELSE IF item = " " THEN ""
    ELSE item

applyProfile(baseConfig, profileName) ==
    LET normalized == toLowerCase(profileName)
        selectedProfile == IF normalized \in VALID_PROFILES THEN normalized
                           ELSE DEFAULT_CONFIG.profile
        profilePreset == PROFILE_PRESETS[selectedProfile]
        profiled == deepMerge(baseConfig, profilePreset)
    IN  [profiled EXCEPT !["profile"] = selectedProfile,
                         !["ignore"] = uniqueArray(baseConfig["ignore"]
                                                   \o profilePreset["ignore"])]

loadConfig(file) == deepMerge(DEFAULT_CONFIG, file)

\* The ignore option is a comma-separated string, given by its pieces, or
\* an array.
IgnoreString(pieces) == [string |-> pieces]

IgnoreArray(items) == [array |-> items]

\* split(",").map(trim).filter(Boolean) of a string, filter(Boolean) of an array.
RECURSIVE extraIgnoreFrom(_, _)
extraIgnoreFrom(items, isString) ==
    IF items = <<>> THEN <<>>
    ELSE LET item == IF isString THEN trim(Head(items)) ELSE Head(items)
         IN  (IF item = "" THEN <<>> ELSE <<item>>) \o extraIgnoreFrom(Tail(items), isString)

extraIgnoreOf(options) ==
    IF "ignore" \notin DOMAIN options THEN <<>>
    ELSE IF "string" \in DOMAIN options["ignore"]
         THEN extraIgnoreFrom(options["ignore"].string, TRUE)
         ELSE extraIgnoreFrom(options["ignore"].array, FALSE)

\* The overrides after validation: ignore is taken out, an unknown profile
\* is deleted.
safeOverridesOf(options) ==
    IF "profile" \in DOMAIN options /\ toLowerCase(options["profile"]) \in VALID_PROFILES
    THEN [key \in {"profile"} |-> toLowerCase(options["profile"])]
    ELSE EmptyObject

mergeConfig(base, options) ==
    LET safeOverrides == safeOverridesOf(options)
        extraIgnore == extraIgnoreOf(options)
        selectedProfile == IF "profile" \in DOMAIN safeOverrides
                           THEN safeOverrides["profile"]
                           ELSE base["profile"]
        profiledBase == applyProfile(base, selectedProfile)
        merged == deepMerge(profiledBase, safeOverrides)
    IN  [merged EXCEPT !["ignore"] = uniqueArray(profiledBase["ignore"] \o extraIgnore)]

\* The .vibecleanrc files and the options of the runs.
Object(keys, values) == [key \in keys |-> values[key]]

FileProfiles == {"cli", "library", "bogus"}

FileIgnores == {<<"dist/**">>, <<"test/**", "", "dist/**">>}

FileLeftovers ==
    {[allowConsolePaths |-> <<"tools/">>],
     [ignoreTodoPaths |-> <<>>],
     [allowConsolePaths |-> <<>>, ignoreTodoPaths |-> <<"fixtures/">>]}

FileConfigs ==
    {Object(keys, [profile |-> p, ignore |-> i, leftovers |-> l])
     : keys \in SUBSET {"profile", "ignore", "leftovers"},
       p \in FileProfiles, i \in FileIgnores, l \in FileLeftovers}

OptionProfiles == {"app", "cli", "CLI", "library", "bogus"}

OptionIgnores ==
    {IgnoreString(<<" tmp/**", "", "dist/**">>), IgnoreString(<<" ">>),
     IgnoreArray(<<"tmp/**", "">>)}

OptionSets ==
    {Object(keys, [profile |-> p, ignore |-> i])
     : keys \in SUBSET {"profile", "ignore"}, p \in OptionProfiles, i \in OptionIgnores}

LoadConfig ==
    /\ cfPc = "load"
    /\ loadedConfig' = loadConfig(fileConfig)
    /\ cfPc' = "merge"
    /\ UNCHANGED <<fileConfig, overrides, mergedConfig>>
    /\ UNCHANGED <<deadVars, ehVars, nmVars, auVars, blVars, psVars, plVars, wtVars>>

MergeConfig ==
    /\ cfPc = "merge"
    /\ mergedConfig' = mergeConfig(loadedConfig, overrides)
    /\ cfPc' = "merged"
    /\ UNCHANGED <<fileConfig, overrides, loadedConfig>>
    /\ UNCHANGED <<deadVars, ehVars, nmVars, auVars, blVars, psVars, plVars, wtVars>>

ConfigNext ==
    \/ LoadConfig
    \/ MergeConfig

(***************************************************************************)
(* index.js: the analyzers of runAudit on the shared file list.  Each is   *)
(* handed scanResult.files and its result is pushed on categoryResults.    *)
(* runAudit calls them in source order; the runs here take them in any     *)
(* order, as a scheduler that starts them independently would.             *)
(***************************************************************************)
\* for (const file of files) { ... totalAwait += awaitStats.totalAwait; ... }
RECURSIVE awaitTotals(_, _)
awaitTotals(acc, fs) ==
    IF fs = <<>> THEN acc
    ELSE awaitTotals(addCounters(acc, countAwaitStats(Head(fs).content)), Tail(fs))

analyzeErrorHandling(fs) ==
    LET totals == awaitTotals(ZeroCounters, fs)
    IN  [id |-> "errorhandling",
         totalAwait |-> totals.totalAwait,
         unhandledAwait |-> totals.unhandledAwait]

\* collectIdentifiers(file.content), file by file
collectedIdentifiers(fs) ==
    [i \in 1..Len(fs) |->
        [relativePath |-> fs[i].relativePath, identifiers |-> fs[i].content.identifiers]]

PipelineAnalyzers == {"naming", "deadcode", "errorhandling"}

analyzerResult(id, fs) ==
    CASE id = "naming" -> analyzeNaming(collectedIdentifiers(fs))
      [] id = "deadcode" -> analyzeDeadCode(fs)
      [] id = "errorhandling" -> analyzeErrorHandling(fs)

\* Mutant: an analyzer that runs after another one is handed the list without
\* its first file, as if the earlier analyzer had shifted it off.
pushCategoryAfterShift(results, id, fs) ==
    Append(results, IF results = <<>> \/ fs = <<>> THEN analyzerResult(id, fs)
                    ELSE analyzerResult(id, Tail(fs)))

\* categoryResults.push(analyze<Id>(scanResult.files, context))
pushCategory(results, id, fs) == Append(results, analyzerResult(id, fs))

PipelineFile(sourceFile, awaitContent, identifiers) ==
    [relativePath |-> sourceFile.relativePath,
     content |-> [imports |-> sourceFile.content.imports,
                  exports |-> sourceFile.content.exports,
                  codeLines |-> sourceFile.content.codeLines,
                  reexportOnly |-> sourceFile.content.reexportOnly,
                  ast |-> awaitContent.ast,
                  awaitWords |-> awaitContent.awaitWords,
                  identifiers |-> identifiers]]

\* Five files of the dead-code tree, each with a syntax tree (or none) and
\* the identifiers collected from it.
PipelineFiles ==
    << PipelineFile(DeadCodeFiles[1], Parsed(Program(<<AwaitCall>>)), NamingTexts[1]),
       PipelineFile(DeadCodeFiles[3], Parsed(Program(<<AwaitCatch>>)), NamingTexts[5]),
       PipelineFile(DeadCodeFiles[4], Unparseable(MaxAwaitWords), NamingTexts[2]),
       PipelineFile(DeadCodeFiles[5], Parsed(NestedHandlerAwait), NamingTexts[7]),
       PipelineFile(DeadCodeFiles[8], Parsed(Program(<<AwaitCall, AwaitCall>>)),
                    NamingTexts[3]) >>

PipelineFileLists ==
    UNION {{[i \in 1..n |-> PipelineFiles[c[i]]]
            : c \in {d \in [1..n -> 1..Len(PipelineFiles)] :
                        \A i, j \in 1..n : i # j => d[i] # d[j]}}
           : n \in 0..MaxFiles}

HasRun(id) == \E i \in 1..Len(plCategoryResults) : plCategoryResults[i].id = id

RunNamingAnalyzer ==
    /\ "naming" \in plRules
    /\ ~HasRun("naming")
    /\ plCategoryResults' = pushCategory(plCategoryResults, "naming", plFiles)
    /\ UNCHANGED <<plScanned, plFiles, plRules>>
    /\ UNCHANGED <<deadVars, ehVars, nmVars, auVars, blVars, psVars, cfVars, wtVars>>

RunDeadCodeAnalyzer ==
    /\ "deadcode" \in plRules
    /\ ~HasRun("deadcode")
    /\ plCategoryResults' = pushCategory(plCategoryResults, "deadcode", plFiles)
    /\ UNCHANGED <<plScanned, plFiles, plRules>>
    /\ UNCHANGED <<deadVars, ehVars, nmVars, auVars, blVars, psVars, cfVars, wtVars>>

RunErrorHandlingAnalyzer ==
    /\ "errorhandling" \in plRules
    /\ ~HasRun("errorhandling")
    /\ plCategoryResults' = pushCategory(plCategoryResults, "errorhandling", plFiles)
    /\ UNCHANGED <<plScanned, plFiles, plRules>>
    /\ UNCHANGED <<deadVars, ehVars, nmVars, auVars, blVars, psVars, cfVars, wtVars>>

PipelineNext == RunNamingAnalyzer \/ RunDeadCodeAnalyzer \/ RunErrorHandlingAnalyzer

(***************************************************************************)
(* bin: runWatchMode.  One event loop: the interval callback starts a      *)
(* poll, a poll resolves some time after it has read the tree, the         *)
(* debounce timer and the 250 ms timers call runCycle, and a cycle reaches *)
(* its finally block some time after it has started.                       *)
(***************************************************************************)
MaxFingerprints == 2
MaxPolls == 2
MaxRequeueTimers == 2

Fingerprints == 0..(MaxFingerprints - 1)

\* Mutant: runCycle starts a cycle whether or not one is running.
runCycleUnguarded(isRunning, isQueued) ==
    [running |-> TRUE, queued |-> isQueued, started |-> TRUE]

\* if (running) { queued = true; return; }  running = true; ...
runCycle(isRunning, isQueued) ==
    IF isRunning
    THEN [running |-> TRUE, queued |-> TRUE, started |-> FALSE]
    ELSE [running |-> TRUE, queued |-> isQueued, started |-> TRUE]

\* Mutant: the finally block forgets the queued call.
afterCycleForgetsQueued(isQueued, timers) ==
    [running |-> FALSE, queued |-> FALSE, requeueTimers |-> timers]

\* finally { running = false; if (queued) { queued = false; setTimeout(..., 250); } }
afterCycle(isQueued, timers) ==
    [running |-> FALSE, queued |-> FALSE,
     requeueTimers |-> IF isQueued THEN timers + 1 ELSE timers]

\* A call of runCycle from the caller's side.
CallRunCycle ==
    LET call == runCycle(running, queued)
    IN  /\ running' = call.running
        /\ queued' = call.queued
        /\ activeCycles' = IF call.started THEN activeCycles + 1 ELSE activeCycles
        /\ pendingChange' = IF call.started THEN FALSE ELSE pendingChange

\* await runCycle("initial run")
StartWatch ==
    /\ wtPc = "start"
    /\ CallRunCycle
    /\ wtPc' = "initialRun"
    /\ UNCHANGED <<debounceTimer, requeueTimers, treeFingerprint, previousFingerprint,
                   polls, watchExitCode>>
    /\ UNCHANGED <<deadVars, ehVars, nmVars, auVars, blVars, psVars, cfVars, plVars>>

\* The end of a cycle, with the exit code its try or catch block leaves.
EndCycle(code) ==
    /\ wtPc \in {"initialRun", "polling"}
    /\ activeCycles > 0
    /\ queued => requeueTimers < MaxRequeueTimers
    /\ LET after == afterCycle(queued, requeueTimers)
       IN  /\ running' = after.running
           /\ queued' = after.queued
           /\ requeueTimers' = after.requeueTimers
    /\ activeCycles' = activeCycles - 1
    /\ watchExitCode' = code
    /\ wtPc' = IF wtPc = "initialRun" THEN "fingerprint" ELSE wtPc
    /\ UNCHANGED <<debounceTimer, treeFingerprint, previousFingerprint, polls,
                   pendingChange>>
    /\ UNCHANGED <<deadVars, ehVars, nmVars, auVars, blVars, psVars, cfVars, plVars>>

\* runOnce and renderOutput return; renderOutput sets the exit code when a
\* gate failed.
CycleCompletes == \E gateFailed \in BOOLEAN : EndCycle(IF gateFailed THEN 1 ELSE watchExitCode)

\* runOnce or renderOutput throws: the catch block sets the exit code.
CycleFails == EndCycle(1)

\* let previousFingerprint = await watchFingerprint(...); setInterval(...)
TakeFirstFingerprint ==
    /\ wtPc = "fingerprint"
    /\ previousFingerprint' = treeFingerprint
    /\ wtPc' = "polling"
    /\ UNCHANGED <<running, queued, activeCycles, debounceTimer, requeueTimers,
                   treeFingerprint, polls, pendingChange, watchExitCode>>
    /\ UNCHANGED <<deadVars, ehVars, nmVars, auVars, blVars, psVars, cfVars, plVars>>

\* A file of the tree is written, added or removed.
FileChange ==
    /\ wtPc \in {"initialRun", "fingerprint", "polling"}
    /\ \E fingerprint \in Fingerprints \ {treeFingerprint} :
          treeFingerprint' = fingerprint
    /\ UNCHANGED <<wtPc, running, queued, activeCycles, debounceTimer, requeueTimers,
                   previousFingerprint, polls, pendingChange, watchExitCode>>
    /\ UNCHANGED <<deadVars, ehVars, nmVars, auVars, blVars, psVars, cfVars, plVars>>

\* The interval callback starts: watchFingerprint reads the tree.
IntervalTick ==
    /\ wtPc = "polling"
    /\ Len(polls) < MaxPolls
    /\ polls' = Append(polls, treeFingerprint)
    /\ UNCHANGED <<wtPc, running, queued, activeCycles, debounceTimer, requeueTimers,
                   treeFingerprint, previousFingerprint, pendingChange, watchExitCode>>
    /\ UNCHANGED <<deadVars, ehVars, nmVars, auVars, blVars, psVars, cfVars, plVars>>

\* if (currentFingerprint !== previousFingerprint) { previousFingerprint =
\* currentFingerprint; scheduleDebounced(...) }: the timer is cleared and set.
PollResolves ==
    /\ wtPc = "polling"
    /\ \E i \in 1..Len(polls) :
          /\ polls' = RemoveAt(polls, i)
          /\ IF polls[i] # previousFingerprint
             THEN /\ previousFingerprint' = polls[i]
                  /\ debounceTimer' = TRUE
                  /\ pendingChange' = TRUE
             ELSE UNCHANGED <<previousFingerprint, debounceTimer, pendingChange>>
    /\ UNCHANGED <<wtPc, running, queued, activeCycles, requeueTimers, treeFingerprint,
                   watchExitCode>>
    /\ UNCHANGED <<deadVars, ehVars, nmVars, auVars, blVars, psVars, cfVars, plVars>>

\* watchFingerprint throws: the callback logs the polling error.
PollFails ==
    /\ wtPc = "polling"
    /\ \E i \in 1..Len(polls) : polls' = RemoveAt(polls, i)
    /\ UNCHANGED <<wtPc, running, queued, activeCycles, debounceTimer, requeueTimers,
                   treeFingerprint, previousFingerprint, pendingChange, watchExitCode>>
    /\ UNCHANGED <<deadVars, ehVars, nmVars, auVars, blVars, psVars, cfVars, plVars>>

\* The debounce timer fires: runCycle(reason).
DebounceFires ==
    /\ wtPc = "polling"
    /\ debounceTimer
    /\ debounceTimer' = FALSE
    /\ CallRunCycle
    /\ UNCHANGED <<wtPc, requeueTimers, treeFingerprint, previousFingerprint, polls,
                   watchExitCode>>
    /\ UNCHANGED <<deadVars, ehVars, nmVars, auVars, blVars, psVars, cfVars, plVars>>

\* A 250 ms timer fires: runCycle("re-running queued changes").
RequeueFires ==
    /\ wtPc = "polling"
    /\ requeueTimers > 0
    /\ requeueTimers' = requeueTimers - 1
    /\ CallRunCycle
    /\ UNCHANGED <<wtPc, debounceTimer, treeFingerprint, previousFingerprint, polls,
                   watchExitCode>>
    /\ UNCHANGED <<deadVars, ehVars, nmVars, auVars, blVars, psVars, cfVars, plVars>>

\* process.on("SIGINT", ...): clearInterval and process.exit.
Sigint ==
    /\ wtPc = "polling"
    /\ wtPc' = "exited"
    /\ UNCHANGED <<running, queued, activeCycles, debounceTimer, requeueTimers,
                   treeFingerprint, previousFingerprint, polls, pendingChange,
                   watchExitCode>>
    /\ UNCHANGED <<deadVars, ehVars, nmVars, auVars, blVars, psVars, cfVars, plVars>>

WatchNext ==
    \/ StartWatch
    \/ CycleCompletes
    \/ CycleFails
    \/ TakeFirstFingerprint
    \/ FileChange
    \/ IntervalTick
    \/ PollResolves
    \/ PollFails
    \/ DebounceFires
    \/ RequeueFires
    \/ Sigint

(***************************************************************************)
(* Specifications: one per component; the variables of the other           *)
(* components stay at their idle values.                                   *)
(***************************************************************************)
DeadIdle ==
    /\ files = <<>>
    /\ dead = NoResult
    /\ before = NoResult
    /\ removed = {}
    /\ deadPc = "idle"

EhIdle ==
    /\ ehFiles = <<>>
    /\ ehStats = <<>>
    /\ ehTotals = ZeroCounters
    /\ ehPc = "idle"

NmIdle ==
    /\ nmFiles = <<>>
    /\ naming = NoResult
    /\ nmPc = "idle"

AuIdle ==
    /\ project = [fileCount |-> 0, signals |-> NoFileSignals]
    /\ config = NoResult
    /\ baselineFile = NoFile
    /\ categoryResults = <<>>
    /\ report = NoResult
    /\ frameworks = NoResult
    /\ auPc = "idle"
    /\ exitCode = 0

BlIdle ==
    /\ blBaseReport = NoResult
    /\ blReport = NoResult
    /\ blSnapshot = NoResult
    /\ blComparison = NoResult
    /\ blPc = "idle"

PsIdle ==
    /\ psContent = <<>>
    /\ psResult = NoResult
    /\ psPc = "idle"

CfIdle ==
    /\ fileConfig = NoResult
    /\ overrides = NoResult
    /\ loadedConfig = NoResult
    /\ mergedConfig = NoResult
    /\ cfPc = "idle"

PlIdle ==
    /\ plScanned = <<>>
    /\ plFiles = <<>>
    /\ plRules = {}
    /\ plCategoryResults = <<>>

WtIdle ==
    /\ wtPc = "off"
    /\ running = FALSE
    /\ queued = FALSE
    /\ activeCycles = 0
    /\ debounceTimer = FALSE
    /\ requeueTimers = 0
    /\ treeFingerprint = 0
    /\ previousFingerprint = 0
    /\ polls = <<>>
    /\ pendingChange = FALSE
    /\ watchExitCode = 0

InitDead ==
    /\ files \in FileLists
    /\ dead = NoResult
    /\ before = NoResult
    /\ removed = {}
    /\ deadPc = "scanned"
    /\ EhIdle
    /\ NmIdle
    /\ AuIdle
    /\ BlIdle
    /\ PsIdle
    /\ CfIdle
    /\ PlIdle
    /\ WtIdle

SpecDead == InitDead /\ [][DeadNext]_vars

InitAwait ==
    /\ ehFiles \in EhFileLists
    /\ ehStats = <<>>
    /\ ehTotals = ZeroCounters
    /\ ehPc = "loop"
    /\ DeadIdle
    /\ NmIdle
    /\ AuIdle
    /\ BlIdle
    /\ PsIdle
    /\ CfIdle
    /\ PlIdle
    /\ WtIdle

SpecAwait == InitAwait /\ [][EhNext]_vars

InitNaming ==
    /\ nmFiles \in NamingFileLists
    /\ naming = NoResult
    /\ nmPc = "scanned"
    /\ DeadIdle
    /\ EhIdle
    /\ AuIdle
    /\ BlIdle
    /\ PsIdle
    /\ CfIdle
    /\ PlIdle
    /\ WtIdle

SpecNaming == InitNaming /\ [][NamingNext]_vars

InitNamingTen ==
    /\ nmFiles \in TenFileProjects
    /\ naming = NoResult
    /\ nmPc = "scanned"
    /\ DeadIdle
    /\ EhIdle
    /\ AuIdle
    /\ BlIdle
    /\ PsIdle
    /\ CfIdle
    /\ PlIdle
    /\ WtIdle

SpecNamingTen == InitNamingTen /\ [][NamingNext]_vars

Init ==
    /\ project \in Projects
    /\ \E run \in AuditRuns :
          /\ config = run.config
          /\ baselineFile = run.baselineFile
    /\ categoryResults = <<>>
    /\ report = NoResult
    /\ frameworks = NoResult
    /\ auPc = "scan"
    /\ exitCode = 0
    /\ DeadIdle
    /\ EhIdle
    /\ NmIdle
    /\ BlIdle
    /\ PsIdle
    /\ CfIdle
    /\ PlIdle
    /\ WtIdle

Spec == Init /\ [][AuditNext]_vars

InitBaseline ==
    /\ blBaseReport \in BaselineReports
    /\ blReport \in BaselineReports
    /\ blSnapshot = NoResult
    /\ blComparison = NoResult
    /\ blPc = "write"
    /\ DeadIdle
    /\ EhIdle
    /\ NmIdle
    /\ AuIdle
    /\ PsIdle
    /\ CfIdle
    /\ PlIdle
    /\ WtIdle

SpecBaseline == InitBaseline /\ [][BaselineNext]_vars

InitParse ==
    /\ psContent \in Texts
    /\ psResult = NoResult
    /\ psPc = "read"
    /\ DeadIdle
    /\ EhIdle
    /\ NmIdle
    /\ AuIdle
    /\ BlIdle
    /\ CfIdle
    /\ PlIdle
    /\ WtIdle

SpecParse == InitParse /\ [][ParseNext]_vars

InitConfig ==
    /\ fileConfig \in FileConfigs
    /\ overrides \in OptionSets
    /\ loadedConfig = NoResult
    /\ mergedConfig = NoResult
    /\ cfPc = "load"
    /\ DeadIdle
    /\ EhIdle
    /\ NmIdle
    /\ AuIdle
    /\ BlIdle
    /\ PsIdle
    /\ PlIdle
    /\ WtIdle

SpecConfig == InitConfig /\ [][ConfigNext]_vars

InitPipeline ==
    /\ plScanned \in PipelineFileLists
    /\ plFiles = plScanned
    /\ plRules \in SUBSET PipelineAnalyzers
    /\ plCategoryResults = <<>>
    /\ DeadIdle
    /\ EhIdle
    /\ NmIdle
    /\ AuIdle
    /\ BlIdle
    /\ PsIdle
    /\ CfIdle
    /\ WtIdle

SpecPipeline == InitPipeline /\ [][PipelineNext]_vars

InitWatch ==
    /\ wtPc = "start"
    /\ running = FALSE
    /\ queued = FALSE
    /\ activeCycles = 0
    /\ debounceTimer = FALSE
    /\ requeueTimers = 0
    /\ treeFingerprint \in Fingerprints
    /\ previousFingerprint = 0
    /\ polls = <<>>
    /\ pendingChange = FALSE
    /\ watchExitCode = 0
    /\ DeadIdle
    /\ EhIdle
    /\ NmIdle
    /\ AuIdle
    /\ BlIdle
    /\ PsIdle
    /\ CfIdle
    /\ PlIdle

SpecWatch == InitWatch /\ [][WatchNext]_vars

\* Node fires a pending timer, and a started cycle reaches its finally block.
SpecWatchFair ==
    /\ InitWatch
    /\ [][WatchNext]_vars
    /\ WF_vars(DebounceFires)
    /\ WF_vars(RequeueFires)
    /\ WF_vars(CycleCompletes \/ CycleFails)

(***************************************************************************)
(* Vocabulary of the dead-code claims.                                     *)
(***************************************************************************)
ScannedPaths == SeqToSet(relativePathsOf(files))

OrphanSet == SeqToSet(dead.orphanFiles)

UnusedSet == SeqToSet(dead.unusedExports)

\* The names a file's text exports: the declared names and, for a list,
\* the name on the right of `as` (the local name when there is no alias).
ExportedNames(content) ==
    {e.name : e \in {x \in SeqToSet(content.exports) : x.kind = "decl"}}
    \cup UNION {{pt.exported : pt \in {q \in SeqToSet(e.parts) : q.exported # "default"}}
                : e \in {x \in SeqToSet(content.exports) : x.kind = "list"}}

\* The import statements of the scanned files that resolve to `target`.
ImportersOf(target) ==
    UNION {{info \in SeqToSet(extractImportUsage(files[i].content)) :
               /\ isRelativeSpecifier(info.specifier)
               /\ resolveRelativeImport(files[i].relativePath, info.specifier,
                                        ScannedPaths) = target}
           : i \in 1..Len(files)}

\* The relative specifiers written in file i, whatever the statement's form.
RelativeSpecifiersIn(i) ==
    {sp \in {files[i].content.imports[k].specifier :
                k \in 1..Len(files[i].content.imports)} : isRelativeSpecifier(sp)}

\* C5 as stated: every scanned file that is not an entrypoint and has an
\* empty incoming-reference set is reported in orphanFiles, whatever its
\* directory and its exports.
C5_OrphanWhateverDirectory ==
    deadPc = "analyzed" =>
        \A i \in 1..Len(files) :
            LET p == files[i].relativePath
            IN  (~isEntrypoint(p) /\ dead.incomingRefs[p] = {}) => p \in OrphanSet

\* C5 amended: every scanned file under src/ that is not an entrypoint and
\* has an empty incoming-reference set is reported in orphanFiles, whatever
\* its exports.
C5_OrphanUnderSrc ==
    deadPc = "analyzed" =>
        \A i \in 1..Len(files) :
            LET p == files[i].relativePath
            IN  (inSrc(p) /\ ~isEntrypoint(p) /\ dead.incomingRefs[p] = {})
                    => p \in OrphanSet

\* src/utils/helper.js exports foo, nothing imports it: orphan and unused export.
C5_Witness ==
    /\ deadPc = "analyzed"
    /\ <<"src", "utils", "helper.js">> \in OrphanSet
    /\ [file |-> <<"src", "utils", "helper.js">>, name |-> "foo"] \in UnusedSet

\* C6 as stated: an export name n of file F is reported unused iff F is not
\* an entrypoint, no importer of F used a namespace import and n is in no
\* importer's named-usage set; "default" is reported iff F has a default
\* export, is not an entrypoint and no importer used a default or namespace
\* import of F.
C6_UnusedExportIff ==
    deadPc = "analyzed" =>
        \A i \in 1..Len(files) :
            LET F == files[i].relativePath
                importers == ImportersOf(F)
                anyNamespace == \E info \in importers : info.namespaceImport
                anyDefault == \E info \in importers : info.defaultImport
            IN  /\ \A n \in ExportedNames(files[i].content) :
                       ([file |-> F, name |-> n] \in UnusedSet)
                       <=> /\ ~isEntrypoint(F)
                           /\ ~anyNamespace
                           /\ ~\E info \in importers : n \in SeqToSet(info.names)
                /\ ([file |-> F, name |-> "default"] \in UnusedSet)
                   <=> /\ hasDefaultExport(files[i].content.exports)
                       /\ ~isEntrypoint(F)
                       /\ ~anyDefault
                       /\ ~anyNamespace

\* C8: the keys of the incoming-reference map and of the import-usage map,
\* and the members of every incoming-reference set, are relativePaths of
\* scanned files; every edge comes from a specifier that resolves to its
\* target, so a specifier that resolves to no scanned file adds none.
C8_ClosedWorld ==
    deadPc = "analyzed" =>
        /\ DOMAIN dead.incomingRefs \subseteq ScannedPaths
        /\ DOMAIN dead.importUsageByFile \subseteq ScannedPaths
        /\ \A B \in DOMAIN dead.incomingRefs :
               /\ dead.incomingRefs[B] \subseteq ScannedPaths
               /\ \A A \in dead.incomingRefs[B] :
                      \E i \in 1..Len(files) :
                          /\ files[i].relativePath = A
                          /\ \E sp \in RelativeSpecifiersIn(i) :
                                 resolveRelativeImport(A, sp, ScannedPaths) = B

\* A run whose files hold a specifier that matches no scanned file, and an edge.
C8_Witness ==
    /\ deadPc = "analyzed"
    /\ \E i \in 1..Len(files) : \E sp \in RelativeSpecifiersIn(i) :
           resolveRelativeImport(files[i].relativePath, sp, ScannedPaths) = NullPath
    /\ \E B \in DOMAIN dead.incomingRefs : dead.incomingRefs[B] # {}
    /\ DOMAIN dead.importUsageByFile # {}

\* C9: when a relative import of scanned file A resolves to scanned file B,
\* B's incoming-reference set holds A; and a file removed from the list is
\* in no incoming-reference set of the re-run.
C9_ReferentialIntegrity ==
    deadPc = "analyzed" =>
        /\ \A i \in 1..Len(files) : \A sp \in RelativeSpecifiersIn(i) :
               LET B == resolveRelativeImport(files[i].relativePath, sp, ScannedPaths)
               IN  B # NullPath => files[i].relativePath \in dead.incomingRefs[B]
        /\ \A p \in removed : \A B \in DOMAIN dead.incomingRefs :
               p \notin dead.incomingRefs[B]

\* A file that was an importer before its removal, and whose target is
\* still scanned, is gone from the target's set after the re-run.
C9_Witness ==
    /\ deadPc = "analyzed"
    /\ before # NoResult
    /\ \E p \in removed : \E B \in DOMAIN dead.incomingRefs :
           /\ B \in DOMAIN before.incomingRefs
           /\ p \in before.incomingRefs[B]
           /\ p \notin dead.incomingRefs[B]
           /\ dead.incomingRefs[B] # {}

(***************************************************************************)
(* Vocabulary of the await claims.                                         *)
(***************************************************************************)
\* The awaited expression is a chain of method calls one of which is
\* .catch(...): a(), a().catch(h), a().catch(h).then(g), ...  This is the
\* narrowest reading of "chained with .catch"; a file that satisfies the
\* premise of C7 under it satisfies it under every wider reading.
RECURSIVE ChainHasCatch(_)
ChainHasCatch(node) ==
    /\ node.type = "CallExpression"
    /\ calleeOf(node).type = "MemberExpression"
    /\ \/ ~calleeOf(node).computed /\ propertyOf(calleeOf(node)).name = "catch"
       \/ ChainHasCatch(objectOf(calleeOf(node)))

\* The await expressions under `node` that are neither lexically inside the
\* block of a try statement nor chained with .catch; inBlock tells whether
\* node itself lies inside such a block.
RECURSIVE UnprotectedAwaits(_, _)
RECURSIVE UnprotectedAwaitsOfAll(_, _)
UnprotectedAwaitsOfAll(nodes, inBlock) ==
    IF nodes = <<>> THEN 0
    ELSE UnprotectedAwaits(Head(nodes), inBlock) + UnprotectedAwaitsOfAll(Tail(nodes), inBlock)

UnprotectedAwaits(node, inBlock) ==
    IF node.type = "null" THEN 0
    ELSE (IF node.type = "AwaitExpression" /\ ~inBlock /\ ~ChainHasCatch(argumentOf(node))
          THEN 1 ELSE 0)
         + (IF node.type = "TryStatement"
            THEN UnprotectedAwaits(blockOf(node), TRUE)
                 + UnprotectedAwaits(handlerOf(node), inBlock)
                 + UnprotectedAwaits(finalizerOf(node), inBlock)
            ELSE UnprotectedAwaitsOfAll(node.kids, inBlock))

\* C7 as stated: a file with a syntax tree in which every await is lexically
\* inside the block of some try statement, or awaits an expression chained
\* with .catch, has unhandledAwait = 0.
C7_ProtectedAwaitsAreHandled ==
    \A i \in 1..Len(ehStats) :
        (ehFiles[i].ast # NullNode /\ UnprotectedAwaits(ehFiles[i].ast, FALSE) = 0)
            => ehStats[i].unhandledAwait = 0

(***************************************************************************)
(* The naming claims.                                                      *)
(***************************************************************************)
\* C10: for every permutation of the file list analyzeNaming reports the
\* same dominant identifier style, ties between styles included.
C10_DominantOrderIndependent ==
    nmPc = "analyzed" =>
        \A pi \in Permutations(1..Len(nmFiles)) :
            analyzeNaming([i \in 1..Len(nmFiles) |-> nmFiles[pi[i]]]).dominantIdentifierStyle
                = naming.dominantIdentifierStyle

\* Two styles tie for the highest count and their files come in either order.
C10_Witness ==
    /\ nmPc = "analyzed"
    /\ Len(nmFiles) >= 2
    /\ nmFiles[1].identifiers # <<>>
    /\ nmFiles[2].identifiers # <<>>
    /\ styleOf(Head(nmFiles[1].identifiers)) = "snake_case"
    /\ styleOf(Head(nmFiles[2].identifiers)) = "camelCase"
    /\ \E i, j \in 1..Len(naming.identifierCounts) :
           /\ i # j
           /\ naming.identifierCounts[i].count = naming.identifierCounts[j].count
           /\ naming.identifierCounts[i].count > 0
           /\ \A k \in 1..Len(naming.identifierCounts) :
                  naming.identifierCounts[k].count <= naming.identifierCounts[i].count
    /\ naming.dominantIdentifierStyle = "camelCase"

(***************************************************************************)
(* The audit claims.                                                       *)
(***************************************************************************)
Returned == auPc \in {"returned", "exited"}

C3_NoFilesReport ==
    (Returned /\ project.fileCount = 0) =>
        /\ report.overallScore = 100
        /\ report.totalIssues = 0
        /\ report.categories = <<>>
        /\ report.gateFailures = <<>>
        /\ report.passedGates
        /\ categoryResults = <<>>

\* An audit of an empty tree has returned under gates and a baseline that
\* the tree's unused dependencies would not pass.
C3_Witness ==
    /\ Returned
    /\ project.fileCount = 0
    /\ config.minScore # NoLimit
    /\ config.failOn # NoLimit
    /\ config.baseline
    /\ config.failOnRegression
    /\ baselineFile = buildBaselineSnapshot(noFilesReport)
    /\ dependenciesCategory(project.signals.dependencies).score > 0

\* C4: for the same analyzer results the overall score and every
\* category's score of the report are the same under every minimum
\* severity.
C4_ScoresIgnoreSeverityFilter ==
    (auPc \in {"baseline", "gates", "returned"} /\ project.fileCount > 0) =>
        \A minimumSeverity \in Severities :
            LET other == buildReport(project.fileCount, categoryResults, minimumSeverity)
            IN  /\ other.overallScore = report.overallScore
                /\ \A i \in 1..Len(other.categories), j \in 1..Len(report.categories) :
                       other.categories[i].id = report.categories[j].id
                           => other.categories[i].score = report.categories[j].score

(***************************************************************************)
(* The baseline claims.                                                    *)
(***************************************************************************)
HighFindingsOf(rep) ==
    Cardinality(UNION {{<<i, j>> : j \in {k \in 1..Len(rep.categories[i].findings) :
                                              rep.categories[i].findings[k].severity = "high"}}
                       : i \in 1..Len(rep.categories)})

ScoreDropped == blReport.overallScore < blBaseReport.overallScore

IssuesIncreased == blReport.totalIssues > blBaseReport.totalIssues

HighFindingsIncreased == HighFindingsOf(blReport) > HighFindingsOf(blBaseReport)

SomeCategoryWorsened ==
    \E i \in 1..Len(blReport.categories), j \in 1..Len(blBaseReport.categories) :
        /\ blReport.categories[i].id = blBaseReport.categories[j].id
        /\ blReport.categories[i].score > blBaseReport.categories[j].score

\* C2: compareAgainstBaseline returns a non-empty regressions list exactly
\* when the overall score dropped, or the total issues grew, or the count of
\* high-severity findings grew, or a category present in both has a higher
\* score; medium and low finding counts alone make no regression.
C2_RegressionIff ==
    blPc = "compared" =>
        ((blComparison.regressions # <<>>)
            <=> (ScoreDropped \/ IssuesIncreased \/ HighFindingsIncreased
                 \/ SomeCategoryWorsened))

\* A comparison whose only regression is the count of high-severity
\* findings, while the medium count went down.
C2_Witness ==
    /\ blPc = "compared"
    /\ blComparison.deltas.highFindings > 0
    /\ blComparison.regressions = <<"high-severity findings increased">>
    /\ blComparison.deltas.mediumFindings < 0

(***************************************************************************)
(* The syntax-resolver claims.                                             *)
(***************************************************************************)
\* The four tiers, in order.
Tiers(content) ==
    <<tryParse(content, "module"), tryParse(content, "script"),
      tryParse(stripTypeOnlySyntax(content), "module"),
      tryParse(stripTypeOnlySyntax(content), "script")>>

Succeeding(content) == {i \in 1..4 : Tiers(content)[i].ast # NoTree}

\* C11: parseAstWithMeta always returns a result: the tree of the first
\* tier that succeeds among module parse, script parse, module parse of the
\* stripped text, script parse of the stripped text; usedTypeSyntaxFallback
\* is true exactly when that tier read the stripped text, and ast is null
\* exactly when every tier fails.
C11_FirstTierWins ==
    psPc = "parsed" =>
        LET ok == Succeeding(psContent)
        IN  /\ DOMAIN psResult = {"ast", "usedTypeSyntaxFallback"}
            /\ (psResult.ast = NoTree) <=> (ok = {})
            /\ ok # {} =>
                   LET first == CHOOSE i \in ok : \A j \in ok : i <= j
                   IN  /\ psResult.ast = Tiers(psContent)[first].ast
                       /\ psResult.usedTypeSyntaxFallback <=> (first >= 3)
            /\ ok = {} => ~psResult.usedTypeSyntaxFallback

\* A text that parses only as a script once its type-only statements are
\* stripped.
C11_Witness ==
    /\ psPc = "parsed"
    /\ Succeeding(psContent) = {4}
    /\ psResult.usedTypeSyntaxFallback
    /\ psResult.ast.sourceType = "script"


(***************************************************************************)
(* Vocabulary of the gate claims.                                          *)
(***************************************************************************)
ScoreGateViolated ==
    /\ config.minScore # NoLimit
    /\ report.overallScore < config.minScore[1]

IssueGateViolated ==
    /\ config.maxIssues # NoLimit
    /\ report.totalIssues > config.maxIssues[1]

SeverityGateViolated ==
    /\ config.failOn # NoLimit
    /\ \E i \in 1..Len(report.categories) :
          \E j \in 1..Len(report.categories[i].findings) :
             SEVERITY_RANK[report.categories[i].findings[j].severity]
                 >= SEVERITY_RANK[config.failOn[1]]

RegressionGateViolated ==
    /\ config.failOnRegression
    /\ report.baselineComparison # NoResult
    /\ Len(report.baselineComparison.regressions) > 0

SomeGateViolated ==
    \/ ScoreGateViolated
    \/ IssueGateViolated
    \/ SeverityGateViolated
    \/ RegressionGateViolated

BaselineUnusable ==
    /\ config.baseline
    /\ baselineFile \in {NoFile, UnreadableFile, InvalidJsonFile, NullJsonFile}

ReportAsComputed ==
    LET computed == buildReport(project.fileCount, categoryResults, config.severity)
    IN  /\ report.overallScore = computed.overallScore
        /\ report.totalIssues = computed.totalIssues
        /\ report.categories = computed.categories

MarkedMissing ==
    /\ report.baselineComparison = [regressions |-> <<>>, missing |-> TRUE]
    /\ report.scanWarnings = <<"Baseline file not found or invalid">>
    /\ report.gateFailures = collectGateFailures(report, config)

\* C13 as stated: whenever the baseline is enabled and its file is missing,
\* unreadable, not JSON or breaks the comparison, the returned report is
\* marked missing with a warning and is otherwise as computed.
C13_UnusableBaselineMarkedMissing ==
    (Returned /\ BaselineUnusable) => MarkedMissing

\* C13: in a run that scanned at least one file, an enabled baseline whose
\* file is missing, unreadable, not JSON or breaks the comparison gives the
\* comparison section {missing, no regressions} and one scan warning; score,
\* issue total and categories are those computed before the baseline step,
\* and the gate failures are those of the three threshold gates alone.
C13_UnusableBaselineMarkedMissingWithFiles ==
    (Returned /\ BaselineUnusable /\ project.fileCount > 0) =>
        (MarkedMissing /\ ReportAsComputed)

\* A returned run over a non-empty tree whose baseline file holds the JSON
\* text null, so that the comparison itself fails, with gates configured.
C13_Witness ==
    /\ Returned
    /\ project.fileCount > 0
    /\ config.baseline
    /\ config.failOnRegression
    /\ baselineFile = NullJsonFile
    /\ report.baselineComparison.missing
    /\ Len(report.scanWarnings) = 1


(***************************************************************************)
(* Vocabulary of the overall-score claim.                                  *)
(***************************************************************************)
RECURSIVE ScoreSum(_)
ScoreSum(categories) ==
    IF categories = <<>> THEN 0
    ELSE categories[1].score + ScoreSum(SubSeq(categories, 2, Len(categories)))

\* r = round(num / den) for den > 0, halves upwards as Math.round.
IsRounded(r, num, den) ==
    /\ 2 * den * r <= 2 * num + den
    /\ 2 * num + den < 2 * den * (r + 1)

Clamp(low, high, value) ==
    IF value < low THEN low ELSE IF value > high THEN high ELSE value

\* C14: the overall score of a returned report is
\* round(clamp(0, 100, 100 - 10 * mean(scores))) over the categories the
\* report holds, and 100 when it holds none.
C14_OverallScoreFromMean ==
    Returned =>
        LET n == Len(report.categories)
            total == ScoreSum(report.categories)
        IN  IF n = 0 THEN report.overallScore = 100
            ELSE \E r \in 0..100 :
                    /\ IsRounded(r, Clamp(0, 100 * n, 100 * n - 10 * total), n)
                    /\ report.overallScore = r

\* A returned report of three categories whose mean is not a whole number
\* and is rounded upwards.
C14_Witness ==
    /\ Returned
    /\ Len(report.categories) = 3
    /\ (100 * 3 - 10 * ScoreSum(report.categories)) % 3 = 2
    /\ report.overallScore = (100 * 3 - 10 * ScoreSum(report.categories)) \div 3 + 1

\* A returned report over a non-empty tree with every rule disabled.
C14_EveryRuleDisabled ==
    /\ Returned
    /\ project.fileCount > 0
    /\ config.disabled = AnalyzerIds
    /\ report.categories = <<>>
    /\ report.overallScore = 100


(***************************************************************************)
(* Vocabulary of the category-severity claim.                              *)
(***************************************************************************)
SeverityMatchesScore(category) ==
    /\ (category.severity = "high") <=> (category.score >= 7)
    /\ (category.severity = "medium") <=> (category.score >= 4 /\ category.score < 7)
    /\ (category.severity = "low") <=> (category.score < 4)

IsSkipped(category) ==
    /\ category.score = 0
    /\ category.totalIssues = 0
    /\ category.findings = <<>>

Merged == cfPc = "merged"

Elements(array) == {array[i] : i \in 1..Len(array)}

\* The patterns asked for by .vibecleanrc and by the ignore option.
FilePatterns ==
    IF "ignore" \in DOMAIN fileConfig THEN Elements(fileConfig["ignore"]) \ {""} ELSE {}

OptionPatterns ==
    IF "ignore" \notin DOMAIN overrides THEN {}
    ELSE IF "string" \in DOMAIN overrides["ignore"]
         THEN {trim(item) : item \in Elements(overrides["ignore"].string)} \ {""}
         ELSE Elements(overrides["ignore"].array) \ {""}

FileLeftoversKept ==
    "leftovers" \in DOMAIN fileConfig =>
        \A key \in DOMAIN fileConfig["leftovers"] :
            mergedConfig["leftovers"][key] = fileConfig["leftovers"][key]

IgnorePatternsKept ==
    (FilePatterns \cup OptionPatterns) \subseteq Elements(mergedConfig["ignore"])

\* C16: in the merged configuration every leftovers key set in .vibecleanrc
\* has the value of .vibecleanrc, not the value of the profile preset, and
\* every ignore pattern of .vibecleanrc and of the ignore option is in the
\* merged ignore list.
C16_PresetsAreOnlyDefaults ==
    Merged => (FileLeftoversKept /\ IgnorePatternsKept)

\* The ignore half alone.
C16_IgnorePatternsKept ==
    Merged => IgnorePatternsKept


(***************************************************************************)
(* Vocabulary of the ten-file claim.                                       *)
(***************************************************************************)
Analyzed == nmPc = "analyzed"

FilesOfStyle(style) ==
    {i \in 1..Len(nmFiles) :
        /\ nmFiles[i].identifiers # <<>>
        /\ \A j \in 1..Len(nmFiles[i].identifiers) :
              styleOf(nmFiles[i].identifiers[j]) = style}

RECURSIVE IdentifiersUpTo(_, _)
IdentifiersUpTo(fileSet, n) ==
    IF n = 0 THEN 0
    ELSE (IF n \in fileSet THEN Len(nmFiles[n].identifiers) ELSE 0)
         + IdentifiersUpTo(fileSet, n - 1)

IdentifiersOf(fileSet) == IdentifiersUpTo(fileSet, Len(nmFiles))

NineCamelOneSnake ==
    /\ Len(nmFiles) = 10
    /\ Cardinality(FilesOfStyle("camelCase")) = 9
    /\ Cardinality(FilesOfStyle("snake_case")) = 1

EqualContributions ==
    \A i, j \in 1..Len(nmFiles) :
        Len(nmFiles[i].identifiers) = Len(nmFiles[j].identifiers)

\* C17 as stated: nine camelCase files and one snake_case file give
\* camelCase at 90% and one minority file, whatever each file contributes.
C17_NinetyPercentWhateverTheCounts ==
    (Analyzed /\ NineCamelOneSnake) =>
        /\ naming.dominantIdentifierStyle = "camelCase"
        /\ naming.dominantPercent = 90
        /\ Cardinality(naming.minorityFiles) = 1

\* C17: with nine camelCase files and one snake_case file, when the
\* camelCase identifiers are at least as many as the snake_case ones the
\* dominant style is camelCase, its percentage is the rounded share of the
\* camelCase identifiers among all identifiers, and the snake_case file is
\* the one minority file; when they are fewer the dominant style is
\* snake_case and the nine camelCase files are the minority files.  The
\* percentage is 90 when every file contributes the same number of
\* identifiers.
C17_ShareOfIdentifiers ==
    (Analyzed /\ NineCamelOneSnake) =>
        LET camel == IdentifiersOf(FilesOfStyle("camelCase"))
            snake == IdentifiersOf(FilesOfStyle("snake_case"))
        IN  /\ camel >= snake =>
                /\ naming.dominantIdentifierStyle = "camelCase"
                /\ IsRounded(naming.dominantPercent, 100 * camel, camel + snake)
                /\ naming.minorityFiles
                       = {nmFiles[i].relativePath : i \in FilesOfStyle("snake_case")}
                /\ Cardinality(naming.minorityFiles) = 1
            /\ camel < snake =>
                /\ naming.dominantIdentifierStyle = "snake_case"
                /\ IsRounded(naming.dominantPercent, 100 * snake, camel + snake)
                /\ naming.minorityFiles
                       = {nmFiles[i].relativePath : i \in FilesOfStyle("camelCase")}
                /\ Cardinality(naming.minorityFiles) = 9
            /\ EqualContributions => naming.dominantPercent = 90

\* An analyzed ten-file project whose snake_case file contributes more
\* identifiers than the nine camelCase files together.
C17_SnakeCaseDominant ==
    /\ Analyzed
    /\ NineCamelOneSnake
    /\ naming.dominantIdentifierStyle = "snake_case"
    /\ Cardinality(naming.minorityFiles) = 9

\* An analyzed ten-file project whose files contribute unequal numbers of
\* identifiers, with camelCase dominant at a percentage other than 90.
C17_Witness ==
    /\ Analyzed
    /\ NineCamelOneSnake
    /\ ~EqualContributions
    /\ naming.dominantIdentifierStyle = "camelCase"
    /\ naming.dominantPercent = 82
    /\ Cardinality(naming.minorityFiles) = 1


(***************************************************************************)
(* Vocabulary of the alias claim.                                          *)
(***************************************************************************)
\* The parts of the export lists of a text.
ListParts(content) ==
    UNION {SeqToSet(e.parts) : e \in {x \in SeqToSet(content.exports) : x.kind = "list"}}

ExportsDefault(content) ==
    \/ \E e \in SeqToSet(content.exports) : e.kind = "default"
    \/ \E part \in ListParts(content) : part.exported = "default"

\* C18: the ExportSet of every scanned file holds the exported names (the
\* name after `as` where there is one) and never a local name that is not
\* exported; an alias to default sets hasDefault and adds no name; and an
\* aliased export that an importer imports under its exported name is not
\* reported as unused.
C18_AliasAwareExports ==
    deadPc = "analyzed" =>
        \A i \in 1..Len(files) :
            LET F == files[i].relativePath
                exportInfo == extractExports(files[i].content)
            IN  /\ SeqToSet(exportInfo.named) = ExportedNames(files[i].content)
                /\ exportInfo.hasDefault = ExportsDefault(files[i].content)
                /\ \A part \in ListParts(files[i].content) :
                       (/\ part.exported # "default"
                        /\ \E info \in ImportersOf(F) : part.exported \in SeqToSet(info.names))
                       => /\ [file |-> F, name |-> part.exported] \notin UnusedSet
                          /\ [file |-> F, name |-> part.local] \notin UnusedSet


(***************************************************************************)
(* Vocabulary of the resolution-order claim.                               *)
(***************************************************************************)
ExtensionOrder == <<".js", ".jsx", ".ts", ".tsx", ".mjs", ".cjs", ".vue", ".svelte">>

\* The paths a specifier can stand for, in the order they are tried: the
\* path itself, the path with each extension, index.<ext> under the path.
Candidates(direct) ==
    <<direct>>
    \o [k \in 1..Len(ExtensionOrder) |->
           IF direct = <<>> THEN <<"." \o ExtensionOrder[k]>>
           ELSE SubSeq(direct, 1, Len(direct) - 1)
                \o <<direct[Len(direct)] \o ExtensionOrder[k]>>]
    \o [k \in 1..Len(ExtensionOrder) |-> direct \o <<"index" \o ExtensionOrder[k]>>]

FirstScanned(candidates) ==
    IF \E k \in 1..Len(candidates) : candidates[k] \in ScannedPaths
    THEN candidates[CHOOSE k \in 1..Len(candidates) :
                        /\ candidates[k] \in ScannedPaths
                        /\ \A j \in 1..(k - 1) : candidates[j] \notin ScannedPaths]
    ELSE NullPath

\* C19: every relative specifier of a scanned file resolves to the first of
\* its candidates that is a scanned file (exact path, then the extensions in
\* their fixed order, then the index files in the same order) and to null
\* when none is; the importer is recorded in the incoming references of
\* that file.
C19_ResolutionOrder ==
    deadPc = "analyzed" =>
        \A i \in 1..Len(files) : \A sp \in RelativeSpecifiersIn(i) :
            LET A == files[i].relativePath
                direct == pathJoin(pathDirname(A), sp)
                target == FirstScanned(Candidates(direct))
            IN  /\ resolveRelativeImport(A, sp, ScannedPaths) = target
                /\ target # NullPath => A \in dead.incomingRefs[target]

\* src/a.js imports './b' while src/b.js and src/b.ts are both scanned: the
\* .js file is the target, not the .ts file.
C19_Witness ==
    /\ deadPc = "analyzed"
    /\ {<<"src", "a.js">>, <<"src", "b.js">>, <<"src", "b.ts">>} \subseteq ScannedPaths
    /\ <<"src", "a.js">> \in dead.incomingRefs[<<"src", "b.js">>]
    /\ <<"src", "a.js">> \notin dead.incomingRefs[<<"src", "b.ts">>]


(***************************************************************************)
(* Vocabulary of the walk claim.                                           *)
(***************************************************************************)
RECURSIVE AwaitNodes(_)
RECURSIVE AwaitNodesOfAll(_)
AwaitNodesOfAll(nodes) ==
    IF nodes = <<>> THEN 0 ELSE AwaitNodes(Head(nodes)) + AwaitNodesOfAll(Tail(nodes))

\* The await expressions of the tree under `node`.
AwaitNodes(node) ==
    IF node.type = "null" THEN 0
    ELSE (IF node.type = "AwaitExpression" THEN 1 ELSE 0) + AwaitNodesOfAll(node.kids)

\* The await expressions under `node` that the walk reaches with context
\* false and whose argument has no .catch in its chain, when `node` is
\* reached with `context`: the block of a try statement gets true, its
\* handler and finalizer get false, every other child gets its parent's.
RECURSIVE BareAwaits(_, _)
RECURSIVE BareAwaitsOfAll(_, _)
BareAwaitsOfAll(nodes, context) ==
    IF nodes = <<>> THEN 0
    ELSE BareAwaits(Head(nodes), context) + BareAwaitsOfAll(Tail(nodes), context)

BareAwaits(node, context) ==
    IF node.type = "null" THEN 0
    ELSE (IF node.type = "AwaitExpression" /\ ~context /\ ~hasCatchChain(argumentOf(node))
          THEN 1 ELSE 0)
         + (IF node.type = "TryStatement"
            THEN BareAwaits(blockOf(node), TRUE)
                 + BareAwaits(handlerOf(node), FALSE)
                 + BareAwaits(finalizerOf(node), FALSE)
            ELSE BareAwaitsOfAll(node.kids, context))

\* C20: for every analyzed file with a syntax tree, totalAwait is the number
\* of await expressions of the tree, each counted once, and unhandledAwait
\* is the number of them without a .catch chain that a walk starting with
\* context false reaches with context false, where the block of a try
\* statement is visited with true, its handler and finalizer with false
\* whatever the context of the try statement, and other children with the
\* context of their parent.
C20_WalkContext ==
    \A i \in 1..Len(ehStats) :
        ehFiles[i].ast # NullNode =>
            /\ ehStats[i].totalAwait = AwaitNodes(ehFiles[i].ast)
            /\ ehStats[i].unhandledAwait = BareAwaits(ehFiles[i].ast, FALSE)

\* The analyzed file is try { try { f(); } catch (e) { await f(); } }
\* catch (e2) { }: the await of the inner handler lies in the block of the
\* outer try and is still counted as unhandled.
C20_Witness ==
    \E i \in 1..Len(ehStats) :
        /\ ehFiles[i].ast = NestedHandlerAwait
        /\ ehStats[i].totalAwait = 1
        /\ ehStats[i].unhandledAwait = 1


(***************************************************************************)
(* Vocabulary of the catch-chain claim.                                    *)
(***************************************************************************)
\* The chain of an awaited expression holds a .catch property access at
\* some link: the walk goes leftward from a call to its callee and from a
\* member access to its object.
RECURSIVE CatchAtSomeLink(_)
CatchAtSomeLink(node) ==
    IF node.type = "CallExpression" THEN CatchAtSomeLink(calleeOf(node))
    ELSE IF node.type = "MemberExpression"
         THEN \/ ~node.computed /\ propertyOf(node).name = "catch"
              \/ CatchAtSomeLink(objectOf(node))
    ELSE FALSE

\* The await expressions under `node` that the walk reaches with context
\* false and whose chain holds no .catch at any link.
RECURSIVE ChainlessAwaits(_, _)
RECURSIVE ChainlessAwaitsOfAll(_, _)
ChainlessAwaitsOfAll(nodes, context) ==
    IF nodes = <<>> THEN 0
    ELSE ChainlessAwaits(Head(nodes), context) + ChainlessAwaitsOfAll(Tail(nodes), context)

ChainlessAwaits(node, context) ==
    IF node.type = "null" THEN 0
    ELSE (IF node.type = "AwaitExpression" /\ ~context /\ ~CatchAtSomeLink(argumentOf(node))
          THEN 1 ELSE 0)
         + (IF node.type = "TryStatement"
            THEN ChainlessAwaits(blockOf(node), TRUE)
                 + ChainlessAwaits(handlerOf(node), FALSE)
                 + ChainlessAwaits(finalizerOf(node), FALSE)
            ELSE ChainlessAwaitsOfAll(node.kids, context))

\* C21: in every analyzed file with a syntax tree, the awaits counted in
\* unhandledAwait are those reached outside a try-protected context whose
\* awaited chain holds no .catch property access at any link, a link after
\* .catch(...) being a call (.then) or a member access; `await f()` alone
\* gives totalAwait = 1 and unhandledAwait = 1.
C21_UnhandledIffNoCatchLink ==
    \A i \in 1..Len(ehStats) :
        ehFiles[i].ast # NullNode =>
            /\ ehStats[i].unhandledAwait = ChainlessAwaits(ehFiles[i].ast, FALSE)
            /\ ehFiles[i].ast = Program(<<AwaitCall>>) =>
                   ehStats[i] = [totalAwait |-> 1, unhandledAwait |-> 1]


(***************************************************************************)
(* Vocabulary of the parse-failure claim.                                  *)
(***************************************************************************)
HasTree(file) == file.ast # NullNode

\* The statistics a file contributes by itself.
OwnStats(file) ==
    IF HasTree(file)
    THEN [totalAwait |-> AwaitNodes(file.ast), unhandledAwait |-> BareAwaits(file.ast, FALSE)]
    ELSE [totalAwait |-> file.awaitWords, unhandledAwait |-> 0]

RECURSIVE SumOwnStats(_)
SumOwnStats(fileList) ==
    IF fileList = <<>> THEN [totalAwait |-> 0, unhandledAwait |-> 0]
    ELSE LET rest == SumOwnStats(Tail(fileList))
         IN  [totalAwait |-> OwnStats(Head(fileList)).totalAwait + rest.totalAwait,
              unhandledAwait |-> OwnStats(Head(fileList)).unhandledAwait
                                 + rest.unhandledAwait]

RECURSIVE WithTree(_)
WithTree(fileList) ==
    IF fileList = <<>> THEN <<>>
    ELSE (IF HasTree(Head(fileList)) THEN <<Head(fileList)>> ELSE <<>>)
         \o WithTree(Tail(fileList))

RECURSIVE WithoutTree(_)
WithoutTree(fileList) ==
    IF fileList = <<>> THEN <<>>
    ELSE (IF HasTree(Head(fileList)) THEN <<>> ELSE <<Head(fileList)>>)
         \o WithoutTree(Tail(fileList))

\* C22: a file without a syntax tree contributes its count of await words
\* and no unhandled await; every other file contributes what it contributes
\* by itself, so the totals of the run are those of the run without the
\* unparseable files plus their await words; a finished run has analyzed
\* every file.
C22_ParseFailureIsLocal ==
    /\ \A i \in 1..Len(ehStats) :
          /\ ~HasTree(ehFiles[i]) =>
                 ehStats[i] = [totalAwait |-> ehFiles[i].awaitWords, unhandledAwait |-> 0]
          /\ HasTree(ehFiles[i]) => ehStats[i] = OwnStats(ehFiles[i])
    /\ ehPc = "done" =>
          /\ Len(ehStats) = Len(ehFiles)
          /\ ehTotals.unhandledAwait = SumOwnStats(WithTree(ehFiles)).unhandledAwait
          /\ ehTotals.totalAwait = SumOwnStats(WithTree(ehFiles)).totalAwait
                                   + SumOwnStats(WithoutTree(ehFiles)).totalAwait

\* A finished run of two files: the first has no tree and two await words,
\* the second has a tree with one unhandled await.
C22_Witness ==
    /\ ehPc = "done"
    /\ Len(ehFiles) = 2
    /\ ~HasTree(ehFiles[1])
    /\ ehFiles[1].awaitWords = 2
    /\ HasTree(ehFiles[2])
    /\ ehStats[1] = [totalAwait |-> 2, unhandledAwait |-> 0]
    /\ ehStats[2] = [totalAwait |-> 1, unhandledAwait |-> 1]
    /\ ehTotals = [totalAwait |-> 3, unhandledAwait |-> 1]


(***************************************************************************)
(* Vocabulary of the style-pattern claim.                                  *)
(***************************************************************************)
StyleNames == {"camelCase", "snake_case", "PascalCase", "SCREAMING_SNAKE"}

StylesMatching(identifier) == {st \in StyleNames : matchesStyle(identifier, st)}

\* The occurrences of identifiers in the scanned files: <<file, position>>.
Occurrences ==
    {<<i, j>> \in (1..Len(nmFiles)) \X (1..MaxFileIdentifiers) :
        j <= Len(nmFiles[i].identifiers)}

OccurrencesMatching(style) ==
    {o \in Occurrences : style \in StylesMatching(nmFiles[o[1]].identifiers[o[2]])}

\* C23: no identifier of the scanned files matches more than one of the
\* four style patterns, so the tally of each style is the number of
\* identifier occurrences that match its pattern, whatever the order the
\* patterns are tried in; identifiers matching no pattern are in no tally.
C23_StylesMutuallyExclusive ==
    Analyzed =>
        /\ \A o \in Occurrences :
               Cardinality(StylesMatching(nmFiles[o[1]].identifiers[o[2]])) <= 1
        /\ \A k \in 1..Len(naming.identifierCounts) :
               naming.identifierCounts[k].count
                   = Cardinality(OccurrencesMatching(naming.identifierCounts[k].style))


(***************************************************************************)
(* Vocabulary of the entrypoint claim.                                     *)
(***************************************************************************)
SUPPORTED_EXTENSIONS == {".js", ".jsx", ".ts", ".tsx", ".mjs", ".cjs", ".vue", ".svelte"}

\* The basename is index, main or app with a supported source extension, or
\* the path begins with pages/ or routes/.
EntrypointAsStated(relativePath) ==
    \/ relativePath[Len(relativePath)]
           \in {base \o ext : base \in {"index", "main", "app"}, ext \in SUPPORTED_EXTENSIONS}
    \/ Len(relativePath) >= 2 /\ relativePath[1] \in {"pages", "routes"}

\* C24: a scanned file is an entrypoint exactly when its basename is index,
\* main or app with a supported source extension or its path begins with
\* pages/ or routes/; and no entrypoint is reported as an orphan or with an
\* unused export.
C24_EntrypointIff ==
    deadPc = "analyzed" =>
        \A i \in 1..Len(files) :
            LET p == files[i].relativePath
            IN  /\ isEntrypoint(p) <=> EntrypointAsStated(p)
                /\ isEntrypoint(p) =>
                       /\ p \notin OrphanSet
                       /\ \A u \in UnusedSet : u.file # p

\* The exemption alone.
C24_EntrypointsExempt ==
    deadPc = "analyzed" =>
        \A i \in 1..Len(files) :
            isEntrypoint(files[i].relativePath) =>
                /\ files[i].relativePath \notin OrphanSet
                /\ \A u \in UnusedSet : u.file # files[i].relativePath


(***************************************************************************)
(* C25: the traversal order of the file list.                              *)
(***************************************************************************)
\* What analyzeDeadCode reports, with the three lists read as sets.
Outcome(result) ==
    [incomingRefs |-> result.incomingRefs,
     importUsageByFile |-> result.importUsageByFile,
     exportsByFile |-> result.exportsByFile,
     orphanFiles |-> SeqToSet(result.orphanFiles),
     unusedExports |-> SeqToSet(result.unusedExports),
     stubFiles |-> SeqToSet(result.stubFiles),
     totalIssues |-> result.totalIssues,
     findings |-> result.findings,
     severity |-> result.severity,
     score |-> result.score]

\* Two reorderings that generate every permutation of a list.
SwapFirstTwo(s) == IF Len(s) < 2 THEN s ELSE <<s[2], s[1]>> \o SubSeq(s, 3, Len(s))
RotateLeft(s) == IF s = <<>> THEN s ELSE Tail(s) \o <<Head(s)>>

\* C25: analyzeDeadCode yields the same incoming references, import usage,
\* orphan, unused-export and stub sets and the same score when the file list
\* is reordered.  Every ordering of every file list is a scan of its own, so
\* equality under the two generating reorderings, at the analysis of each
\* scanned list, gives equality under every permutation.
C25_TraversalOrderIrrelevant ==
    (deadPc = "analyzed" /\ removed = {}) =>
        /\ Outcome(analyzeDeadCode(SwapFirstTwo(files))) = Outcome(dead)
        /\ Outcome(analyzeDeadCode(RotateLeft(files))) = Outcome(dead)

\* A run whose list has an importer after the file it imports, an orphan and an
\* unused export, and whose reorderings are different lists.
C25_Witness ==
    /\ deadPc = "analyzed"
    /\ removed = {}
    /\ Len(files) >= 3
    /\ \E i, j \in 1..Len(files) :
          /\ i < j
          /\ files[j].relativePath \in dead.incomingRefs[files[i].relativePath]
    /\ \E i, j \in 1..Len(files) :
          /\ j < i
          /\ files[j].relativePath \in dead.incomingRefs[files[i].relativePath]
    /\ dead.orphanFiles # <<>>
    /\ dead.unusedExports # <<>>
    /\ dead.importUsageByFile # <<>>
    /\ SwapFirstTwo(files) # files
    /\ RotateLeft(files) # files


(***************************************************************************)
(* C26: what the severity filter leaves in the report.                     *)
(***************************************************************************)
ReportBuilt ==
    /\ auPc \in {"baseline", "gates", "returned", "exited"}
    /\ ~scanYieldsNoFiles(project.fileCount)

\* The analyzer result a reported category was filtered from.
UnfilteredOf(category) ==
    CHOOSE c \in SeqToSet(categoryResults) : c.id = category.id

\* The positions of the findings at or above the threshold, in order.
RECURSIVE AtOrAbove(_, _, _)
AtOrAbove(findings, threshold, i) ==
    IF i > Len(findings) THEN <<>>
    ELSE (IF SEVERITY_RANK[findings[i].severity] >= threshold
          THEN <<findings[i]>> ELSE <<>>)
         \o AtOrAbove(findings, threshold, i + 1)

RECURSIVE IssuesUpTo(_, _)
IssuesUpTo(categories, n) ==
    IF n = 0 THEN 0 ELSE IssuesUpTo(categories, n - 1) + categories[n].totalIssues

\* C26: with a minimum severity of medium or high every reported category
\* holds exactly the findings of its analyzer result whose rank is at or above
\* the threshold, its totalIssues is their number, and the report's
\* totalIssues is the sum over the reported categories; with low the
\* categories' findings and totalIssues are those of the analyzer results.
C26_FilterLeavesThresholdFindings ==
    ReportBuilt =>
        LET threshold == SEVERITY_RANK[config.severity]
        IN  /\ report.totalIssues = IssuesUpTo(report.categories, Len(report.categories))
            /\ config.severity \in {"medium", "high"} =>
                  \A i \in 1..Len(report.categories) :
                     LET category == report.categories[i]
                     IN  /\ \A k \in 1..Len(category.findings) :
                               SEVERITY_RANK[category.findings[k].severity] >= threshold
                         /\ category.findings
                               = AtOrAbove(UnfilteredOf(category).findings, threshold, 1)
                         /\ category.totalIssues = Len(category.findings)
            /\ config.severity = "low" =>
                  /\ Len(report.categories) = Len(categoryResults)
                  /\ \A i \in 1..Len(report.categories) :
                        /\ report.categories[i].id = categoryResults[i].id
                        /\ report.categories[i].findings = categoryResults[i].findings
                        /\ report.categories[i].totalIssues = categoryResults[i].totalIssues

\* A report filtered at medium: a reported category lost a low finding, kept a
\* medium one, and its totalIssues changed; another run is unfiltered.
C26_Witness ==
    /\ ReportBuilt
    /\ config.severity = "medium"
    /\ \E i \in 1..Len(report.categories) :
          LET category == report.categories[i]
              unfiltered == UnfilteredOf(category)
          IN  /\ \E k \in 1..Len(unfiltered.findings) :
                    unfiltered.findings[k].severity = "low"
              /\ \E k \in 1..Len(category.findings) :
                    category.findings[k].severity = "medium"
              /\ category.totalIssues # unfiltered.totalIssues
    /\ Len(report.categories) >= 2
    /\ report.totalIssues > 0


RoundTrip ==
    /\ blPc = "compared"
    /\ blReport = blBaseReport

\* C28: comparing a report against the snapshot built from that same report
\* yields the deltas score, totalIssues, highFindings and mediumFindings all
\* zero and no regression.
C28_BaselineRoundTrip ==
    RoundTrip =>
        /\ blComparison.deltas
              = [score |-> 0, totalIssues |-> 0, highFindings |-> 0, mediumFindings |-> 0]
        /\ blComparison.regressions = <<>>

\* A round trip of a report with two categories, a positive category score, a
\* high finding and issues.
C28_Witness ==
    /\ RoundTrip
    /\ Len(blReport.categories) = 2
    /\ \E i \in 1..Len(blReport.categories) :
          blReport.categories[i].score > blReport.categories[i].totalIssues
    /\ HighFindingsOf(blReport) > 0
    /\ blReport.totalIssues > 0
    /\ blReport.overallScore < 100


(***************************************************************************)
(* C29, C30: watch mode.                                                   *)
(***************************************************************************)
\* The timers that call runCycle.
TimerCallsRunCycle == DebounceFires \/ RequeueFires

\* C29: watch mode never has two audit cycles in progress, and a call of
\* runCycle made while a cycle is running sets the queued flag and starts
\* nothing.
C29_OneCycleAtATime ==
    /\ [](activeCycles <= 1 /\ (running <=> activeCycles = 1))
    /\ [][(running /\ TimerCallsRunCycle)
             => (queued' /\ UNCHANGED <<running, activeCycles, pendingChange>>)]_vars

\* A timer is about to call runCycle while a cycle is running.
C29_Witness ==
    /\ wtPc = "polling"
    /\ running
    /\ activeCycles = 1
    /\ ~queued
    /\ debounceTimer
    /\ requeueTimers > 0

\* C30: after a detected change an audit cycle eventually starts, unless the
\* process is interrupted first.
C30_DetectedChangeLeadsToCycle ==
    pendingChange ~> (~pendingChange \/ wtPc = "exited")

\* A change was detected during a running cycle, the call of runCycle it
\* led to was queued, and an earlier cycle had failed.
C30_Witness ==
    /\ wtPc = "polling"
    /\ pendingChange
    /\ running
    /\ queued
    /\ ~debounceTimer
    /\ watchExitCode = 1

=============================================================================
